---- MODULE Spec2Model ----
(***************************************************************************)
(* A model of the SQLite file decoder of codecrafters-sqllite-rust.        *)
(*                                                                         *)
(* Bytes are the integers 0..255.  A reader (io::Read over a slice or a   *)
(* file) is the sequence of the bytes it has not yet handed out.  A u64    *)
(* is the set of the positions (0..63) of its one bits, so that the full   *)
(* 64-bit width of varint::value_of is kept: `|` is set union and a left  *)
(* shift moves positions up and drops those past bit 63.                   *)
(***************************************************************************)
EXTENDS Integers, Sequences, FiniteSets, TLC

VARIABLES
    input,            \* the bytes the reader was created over (never changes)
    r,                \* the reader: the bytes not yet consumed
    pc,               \* the position of the caller
    varint,           \* the result of varint::read
    value,            \* the result of varint::value_of
    size,             \* the result of varint::size_of
    overflow_checks,  \* the build profile: TRUE = debug (checked arithmetic)
    alloc_fails,      \* the host: TRUE = an allocation of 2 GiB or more fails
    eof_consumes,     \* the toolchain: TRUE = a failed read_exact on a slice
                      \* leaves the slice empty, FALSE = leaves it as it was
    database_header,  \* RootPage.database_header, once read
    root_page,        \* Pages.root_page.tail: the B-tree page of page 1
    tail,             \* Pages.tail: the B-tree pages after page 1
    page_cells,       \* PageCells, the result of page::cells
    pairs,            \* the items of PageCells::into_iter
    raw_record,       \* the RawRecord of record::read_raw
    record,           \* the result of record::read
    record_value,     \* the result of record::read_value
    page_offset,      \* the initial_offset btree::read_page is called with
    page_inner,       \* the BTreePageInner of btree::read_page_inner
    btree_page,       \* the BTreePage of btree::read_page
    sql_result        \* the result of sql::parse

vars == <<input, r, pc, varint, value, size, overflow_checks, alloc_fails,
          eof_consumes, database_header, root_page, tail, page_cells, pairs,
          raw_record, record, record_value, page_offset, page_inner,
          btree_page, sql_result>>

(***************************************************************************)
(* Bounds of the model.                                                    *)
(***************************************************************************)
\* the longest run of continuation bytes offered to varint::read
MaxCont == 11

(***************************************************************************)
(* Bytes and 64-bit words.                                                 *)
(***************************************************************************)
\* 2^n for the small n used on bytes
RECURSIVE Pow2(_)
Pow2(n) == IF n = 0 THEN 1 ELSE 2 * Pow2(n - 1)

\* bit i of the byte b
BitOf(b, i) == (b \div Pow2(i)) % 2 = 1

\* `elt as u64`: the one bits of a byte
ByteAsU64(b) == {i \in 0..7 : BitOf(b, i)}

\* the byte whose one bits are bs (a subset of 0..7)
RECURSIVE ByteOfBits(_)
ByteOfBits(bs) ==
    IF bs = {} THEN 0
    ELSE LET i == CHOOSE x \in bs : TRUE
         IN  Pow2(i) + ByteOfBits(bs \ {i})

\* u64 `<<` by s < 64: bits shifted past position 63 are lost
U64Shl(a, s) == {i + s : i \in {j \in a : j + s <= 63}}

\* u64 `/ 2`
U64Half(a) == {i - 1 : i \in a \ {0}}

\* u64 `- 1` of a non-zero word
U64Dec(a) ==
    LET low == CHOOSE i \in a : \A j \in a : i <= j
    IN  (a \ {low}) \cup 0..(low - 1)

\* u64 `- k` for a small k, when the word is at least k
RECURSIVE U64Sub(_, _)
U64Sub(a, k) == IF k = 0 THEN a ELSE U64Sub(U64Dec(a), k - 1)

\* whether the word is below 2^31, so that it is a number of the model
U64IsSmall(a) == \A i \in a : i < 31

\* `as usize` of a word below 2^31
RECURSIVE U64AsNat(_)
U64AsNat(a) ==
    IF a = {} THEN 0
    ELSE LET i == CHOOSE x \in a : TRUE
         IN  Pow2(i) + U64AsNat(a \ {i})

\* u64 `<` against a small number
U64Less(a, k) == U64IsSmall(a) /\ U64AsNat(a) < k

\* the u64 of a number below 2^31
U64OfNat(n) == {i \in 0..30 : (n \div Pow2(i)) % 2 = 1}

\* vec![0; n]: "ok", or "panic" for a capacity overflow (n > isize::MAX) and
\* for a failed allocation (an abort); no host has 2^47 bytes, and whether
\* 2^31 .. 2^47 bytes can be had depends on the host
vec_alloc(n) ==
    IF \E i \in n : i >= 47 THEN "panic"
    ELSE IF ~U64IsSmall(n) /\ alloc_fails THEN "panic"
    ELSE "ok"

\* Read::read_exact into a buffer of n bytes (n a u64)
read_exact_u64(rr, n) ==
    LET take(count) ==
            [ok |-> TRUE, val |-> SubSeq(rr, 1, count),
             rest |-> SubSeq(rr, count + 1, Len(rr))]
    IN  IF U64IsSmall(n) /\ U64AsNat(n) <= Len(rr)
        THEN take(U64AsNat(n))
        ELSE [ok |-> FALSE, val |-> <<>>, rest |-> IF eof_consumes THEN <<>> ELSE rr]

(***************************************************************************)
(* src/io.rs                                                               *)
(***************************************************************************)
\* io::read_exact_vec / Read::read_exact over a slice: count bytes or UnexpectedEof
read_exact_vec(rr, count) ==
    IF Len(rr) < count
    THEN [ok |-> FALSE, val |-> <<>>, rest |-> IF eof_consumes THEN <<>> ELSE rr]
    ELSE [ok |-> TRUE, val |-> SubSeq(rr, 1, count),
          rest |-> SubSeq(rr, count + 1, Len(rr))]

\* io::read_one: one byte or UnexpectedEof
read_one(rr) ==
    IF rr = <<>>
    THEN [ok |-> FALSE, val |-> 0, rest |-> rr]
    ELSE [ok |-> TRUE, val |-> Head(rr), rest |-> Tail(rr)]

(***************************************************************************)
(* src/varint.rs                                                           *)
(***************************************************************************)
\* Varint { a0, tail } as the sequence <<a0>> \o tail
varint_iter(v) == <<v.a0>> \o v.tail

\* varint::len
varint_len(v) == Len(v.tail) + 1

\* varint::high_bit_is_set
high_bit_is_set(val) == BitOf(val, 7)

\* the closure of varint::read, collected: bytes are taken while the previous
\* one has its high bit set; a failed read_one ends the tail (`.ok()?`)
RECURSIVE read_tail(_, _)
read_tail(prev, rr) ==
    LET push(next, more) ==
            [tail |-> <<next>> \o more.tail, rest |-> more.rest]
        step(next) ==
            IF ~next.ok
            THEN [tail |-> <<>>, rest |-> rr]
            ELSE push(next.val, read_tail(next.val, next.rest))
    IN  IF ~high_bit_is_set(prev)
        THEN [tail |-> <<>>, rest |-> rr]
        ELSE step(read_one(rr))

\* varint::read
varint_read(rr) ==
    LET collect(a0, t) ==
            [ok |-> TRUE, a0 |-> a0, tail |-> t.tail, rest |-> t.rest]
        start(first) ==
            IF ~first.ok
            THEN [ok |-> FALSE, a0 |-> 0, tail |-> <<>>, rest |-> rr]
            ELSE collect(first.val, read_tail(first.val, first.rest))
    IN  start(read_one(rr))

\* the Varint { a0, tail } of a successful varint::read
Varint(res) == [a0 |-> res.a0, tail |-> res.tail]

\* the shift amount of element idx (0-based) in varint::value_of
value_of_shift(count, idx) == 7 * (count - idx - 1)

\* varint::value_of panics in a build with overflow checks when a shift
\* amount reaches the width of u64
value_of_panics(v, checks) ==
    checks /\ value_of_shift(varint_len(v), 0) >= 64

\* one element of the fold of varint::value_of: every element but the last
\* has its high bit flipped, then the element is shifted (the shift amount
\* wraps at 64 in a build without overflow checks)
value_of_elt(v, idx) ==
    LET flip(count, bits) ==
            IF idx < count - 1
            THEN (bits \ {7}) \cup ({7} \ bits)
            ELSE bits
        shift(count, elt) ==
            U64Shl(flip(count, ByteAsU64(elt)), value_of_shift(count, idx) % 64)
    IN  shift(varint_len(v), varint_iter(v)[idx + 1])

\* varint::value_of
value_of(v) ==
    UNION {value_of_elt(v, idx) : idx \in 0..(varint_len(v) - 1)}

\* varint::size_of
size_of(v) == 1 + Len(v.tail)

(***************************************************************************)
(* src/database.rs: the database header                                    *)
(***************************************************************************)
\* u16::from_be_bytes([hi, lo]); also a u16 field of a transmuted struct
\* after to_be()
be16(hi, lo) == hi * 256 + lo

\* size_of::<DatabaseHeader>(): the length of the buffer of read_header
DATABASE_HEADER_SIZE == 100

\* HEADER_STRING_SIZE
HEADER_STRING_SIZE == 16

\* database::read_header: 100 bytes reinterpreted as a DatabaseHeader, the
\* multi-byte fields made big-endian; nothing is validated
read_header(rr) ==
    LET transmute(buf) ==
            IF ~buf.ok
            THEN [st |-> "err", header |-> [read |-> FALSE], rest |-> buf.rest]
            ELSE [st |-> "ok",
                  header |-> [read |-> TRUE,
                              header_string |-> SubSeq(buf.val, 1, HEADER_STRING_SIZE),
                              page_size |-> be16(buf.val[17], buf.val[18]),
                              file_format_write_version |-> buf.val[19],
                              file_format_read_version |-> buf.val[20],
                              reserved_page_tail_bytes |-> buf.val[21],
                              maximum_embedded_payload_fraction |-> buf.val[22],
                              minimum_embedded_payload_fraction |-> buf.val[23],
                              leaf_payload_fraction |-> buf.val[24]],
                  rest |-> buf.rest]
    IN  transmute(read_exact_vec(rr, DATABASE_HEADER_SIZE))

(***************************************************************************)
(* src/sql.rs: text is the sequence of its bytes                           *)
(***************************************************************************)
\* a UTF-8 continuation byte
IsCont(b) == b >= 128 /\ b <= 191

\* String::from_utf8: whether the bytes are well-formed UTF-8: every byte
\* that is not a continuation byte starts a character of 1 to 4 bytes that
\* is all there, and every continuation byte belongs to such a character
from_utf8_ok(v) ==
    LET width(b) ==
            CASE b <= 127 -> 1
              [] b >= 194 /\ b <= 223 -> 2
              [] b >= 224 /\ b <= 239 -> 3
              [] b >= 240 /\ b <= 244 -> 4
              [] OTHER -> 0
        second(b) ==
            CASE b = 224 -> 160..191
              [] b = 237 -> 128..159
              [] b = 240 -> 144..191
              [] b = 244 -> 128..143
              [] OTHER -> 128..191
        starts(i, w) ==
            /\ w > 0
            /\ i + w - 1 <= Len(v)
            /\ w >= 2 => v[i + 1] \in second(v[i])
            /\ \A j \in (i + 2)..(i + w - 1) : IsCont(v[j])
        belongs(i) ==
            \E j \in 1..3 :
                /\ i - j >= 1
                /\ \A m \in (i - j + 1)..(i - 1) : IsCont(v[m])
                /\ ~IsCont(v[i - j])
                /\ width(v[i - j]) > j
    IN  \A i \in 1..Len(v) :
            IF IsCont(v[i]) THEN belongs(i) ELSE starts(i, width(v[i]))

\* str::to_lowercase on ASCII text: 'A'..'Z' become 'a'..'z' (the texts of
\* the model are ASCII; other characters are left as they are)
to_lowercase(t) ==
    [i \in 1..Len(t) |-> IF t[i] >= 65 /\ t[i] <= 90 THEN t[i] + 32 ELSE t[i]]

\* str::starts_with
starts_with(t, prefix) ==
    Len(t) >= Len(prefix) /\ SubSeq(t, 1, Len(prefix)) = prefix

\* str::strip_prefix of a prefix that is there
strip_prefix(t, prefix) == SubSeq(t, Len(prefix) + 1, Len(t))

\* str::trim_start_matches with a predicate on bytes
RECURSIVE trim_start_by(_, _)
trim_start_by(t, drop) ==
    IF t # <<>> /\ t[1] \in drop THEN trim_start_by(Tail(t), drop) ELSE t

\* str::trim_end_matches with a predicate on bytes
RECURSIVE trim_end_by(_, _)
trim_end_by(t, drop) ==
    IF t # <<>> /\ t[Len(t)] \in drop
    THEN trim_end_by(SubSeq(t, 1, Len(t) - 1), drop)
    ELSE t

\* str::trim: char::is_whitespace on ASCII is tab, LF, VT, FF, CR, space
trim(t) == trim_end_by(trim_start_by(t, {9, 10, 11, 12, 13, 32}),
                       {9, 10, 11, 12, 13, 32})

\* str::find of a pattern: the first position it starts at, or 0
find(t, pat) ==
    LET hits == {i \in 1..(Len(t) - Len(pat) + 1) :
                    SubSeq(t, i, i + Len(pat) - 1) = pat}
    IN  IF hits = {} THEN 0 ELSE CHOOSE i \in hits : \A j \in hits : i <= j

\* str::split_once
split_once(t, pat) ==
    LET cut(i) ==
            IF i = 0 THEN [found |-> FALSE, fst |-> <<>>, snd |-> <<>>]
            ELSE [found |-> TRUE, fst |-> SubSeq(t, 1, i - 1),
                  snd |-> SubSeq(t, i + Len(pat), Len(t))]
    IN  cut(find(t, pat))

\* str::split on one byte, collected
RECURSIVE split(_, _)
split(t, c) ==
    LET pieces(cut) ==
            IF ~cut.found THEN <<t>> ELSE <<cut.fst>> \o split(cut.snd, c)
    IN  pieces(split_once(t, <<c>>))

KW_SELECT == <<115, 101, 108, 101, 99, 116>>
KW_FROM == <<102, 114, 111, 109>>
KW_CREATE_TABLE == <<99, 114, 101, 97, 116, 101, 32, 116, 97, 98, 108, 101>>

\* sql::select
select(t) ==
    LET lift(cut) ==
            IF ~cut.found THEN [ok |-> FALSE]
            ELSE [ok |-> TRUE, kind |-> "Select",
                  query |-> trim(cut.fst), source |-> trim(cut.snd)]
    IN  lift(split_once(trim(strip_prefix(t, KW_SELECT)), KW_FROM))

\* the map_while of sql::create_table, collected: the terms up to the first
\* one without a space, each as (column name, (position, declared type))
RECURSIVE signature_pieces(_, _)
signature_pieces(terms, term_idx) ==
    LET piece(cut) ==
            IF ~cut.found THEN <<>>
            ELSE <<[name |-> cut.fst, idx |-> term_idx, type |-> cut.snd]>>
                     \o signature_pieces(Tail(terms), term_idx + 1)
    IN  IF terms = <<>> THEN <<>>
        ELSE piece(split_once(trim(Head(terms)), <<32>>))

\* HashMap::from_iter: a later entry of the same key replaces an earlier one
hash_map_from_iter(entries) ==
    [k \in {entries[i].name : i \in 1..Len(entries)} |->
        LET last == CHOOSE i \in 1..Len(entries) :
                        /\ entries[i].name = k
                        /\ \A j \in 1..Len(entries) : entries[j].name = k => j <= i
        IN  <<entries[last].idx, entries[last].type>>]

\* sql::create_table
create_table(t) ==
    LET signature_of(signature_str) ==
            hash_map_from_iter(signature_pieces(split(signature_str, 44), 0))
        lift(cut) ==
            IF ~cut.found THEN [ok |-> FALSE]
            ELSE [ok |-> TRUE, kind |-> "CreateTable",
                  name |-> cut.fst,
                  signature |->
                      signature_of(trim_end_by(trim_start_by(cut.snd, {40}), {41}))]
    IN  lift(split_once(trim(strip_prefix(t, KW_CREATE_TABLE)), <<32>>))

\* sql::parse
parse(data) ==
    LET dispatch(t) ==
            IF starts_with(t, KW_SELECT) THEN select(t)
            ELSE IF starts_with(t, KW_CREATE_TABLE) THEN create_table(t)
            ELSE [ok |-> FALSE]
    IN  IF ~from_utf8_ok(data) THEN [ok |-> FALSE]
        ELSE dispatch(to_lowercase(data))

\* sql::lift_create_table
lift_create_table(q) == q.ok /\ q.kind = "CreateTable"

(***************************************************************************)
(* src/database/record.rs: records                                         *)
(***************************************************************************)
\* the from_fn of record::read_header, collected: varints are read from the
\* header tail until a read fails
RECURSIVE read_serial_types(_)
read_serial_types(src) ==
    LET push(v) ==
            IF ~v.ok THEN <<>> ELSE <<Varint(v)>> \o read_serial_types(v.rest)
    IN  push(varint_read(src))

\* record::header_tail_size: value_of(size) as usize - size_of(size); the
\* subtraction underflows when the value is below the size (a panic with
\* overflow checks; without them the wrapped size is a capacity overflow)
header_tail_size(size_varint) ==
    LET sub(val, sz) ==
            IF U64Less(val, sz)
            THEN [st |-> "panic"]
            ELSE [st |-> "ok", n |-> U64Sub(val, sz)]
    IN  sub(value_of(size_varint), size_of(size_varint))

\* record::read_header
record_read_header(rr) ==
    LET lift(sz, tl) ==
            IF ~tl.ok THEN [st |-> "err"]
            ELSE [st |-> "ok",
                  header |-> [size |-> Varint(sz),
                              serial_types |-> read_serial_types(tl.val)],
                  rest |-> tl.rest]
        read_header_tail(sz, n) ==
            IF n.st = "panic" THEN [st |-> "panic"]
            ELSE IF vec_alloc(n.n) = "panic" THEN [st |-> "panic"]
            ELSE lift(sz, read_exact_u64(sz.rest, n.n))
        read_size(sz) ==
            IF ~sz.ok THEN [st |-> "err"]
            ELSE IF value_of_panics(sz, overflow_checks) THEN [st |-> "panic"]
            ELSE read_header_tail(sz, header_tail_size(sz))
    IN  read_size(varint_read(rr))

\* record::read_raw: the header, then the rest of the reader as data
read_raw(rr) ==
    LET lift(header) ==
            IF header.st # "ok" THEN [st |-> header.st]
            ELSE [st |-> "ok", header |-> header.header, data |-> header.rest]
    IN  lift(record_read_header(rr))

\* record::is_string_serial_type
is_string_serial_type(serial_type_value) ==
    ~U64Less(serial_type_value, 13) /\ 0 \in serial_type_value

\* record::string_serial_type_size
string_serial_type_size(serial_type_value) ==
    U64Half(U64Sub(serial_type_value, 13))

\* record::read_value: every serial type but 0, 1 and the odd ones from 13
\* is todo!()
read_value(rr, serial_type) ==
    LET int8(b) ==
            IF ~b.ok THEN [st |-> "err", rest |-> b.rest]
            ELSE [st |-> "ok",
                  val |-> [kind |-> "TwosComplement8", val |-> b.val],
                  rest |-> b.rest]
        text(buf) ==
            IF ~buf.ok THEN [st |-> "err", rest |-> buf.rest]
            ELSE [st |-> "ok",
                  val |-> [kind |-> "EncodedString", val |-> buf.val],
                  rest |-> buf.rest]
        read_text(n) ==
            IF vec_alloc(n) = "panic" THEN [st |-> "panic"]
            ELSE text(read_exact_u64(rr, n))
        dispatch(serial_type_value) ==
            CASE serial_type_value = {} ->
                     [st |-> "ok", val |-> [kind |-> "Null"], rest |-> rr]
              [] serial_type_value = {0} ->
                     int8(read_one(rr))
              [] serial_type_value \notin {{}, {0}}
                   /\ is_string_serial_type(serial_type_value) ->
                     read_text(string_serial_type_size(serial_type_value))
              [] OTHER -> [st |-> "panic"]
    IN  IF value_of_panics(serial_type, overflow_checks) THEN [st |-> "panic"]
        ELSE dispatch(value_of(serial_type))

\* record::read_raw_column: values are read for the serial types in order
\* up to the first one that fails (map_while)
RECURSIVE read_raw_column(_, _)
read_raw_column(rr, serial_types) ==
    LET push(v, more) ==
            IF more.st = "panic" THEN [st |-> "panic"]
            ELSE [st |-> "ok", cells |-> <<v.val>> \o more.cells,
                  rest |-> more.rest]
        step(v) ==
            CASE v.st = "panic" -> [st |-> "panic"]
              [] v.st = "err" -> [st |-> "ok", cells |-> <<>>, rest |-> v.rest]
              [] OTHER -> push(v, read_raw_column(v.rest, Tail(serial_types)))
    IN  IF serial_types = <<>> THEN [st |-> "ok", cells |-> <<>>, rest |-> rr]
        ELSE step(read_value(rr, Head(serial_types)))

(***************************************************************************)
(* src/database/record/schema.rs                                           *)
(***************************************************************************)
\* record::lift_encoded_string after next(): cell i is there and is a string
lift_encoded_string_ok(cells, i) ==
    Len(cells) >= i /\ cells[i].kind = "EncodedString"

\* record::lift_twos_complement_8 after next()
lift_twos_complement_8_ok(cells, i) ==
    Len(cells) >= i /\ cells[i].kind = "TwosComplement8"

\* SchemaColumn::from_raw_column: five cells lifted by position; the fifth
\* must parse as a CREATE TABLE statement
schema_from_raw_column(cells) ==
    LET lift(sql) ==
            IF lift_create_table(sql)
            THEN [ok |-> TRUE,
                  column |-> [type |-> cells[1].val,
                              name |-> cells[2].val,
                              table_name |-> cells[3].val,
                              rootpage |-> cells[4].val,
                              sql |-> sql]]
            ELSE [ok |-> FALSE]
    IN  IF /\ lift_encoded_string_ok(cells, 1)
           /\ lift_encoded_string_ok(cells, 2)
           /\ lift_encoded_string_ok(cells, 3)
           /\ lift_twos_complement_8_ok(cells, 4)
           /\ lift_encoded_string_ok(cells, 5)
        THEN lift(parse(cells[5].val))
        ELSE [ok |-> FALSE]

\* the from_fn of record::read::<_, SchemaColumn>, collected: columns are
\* read from the data until one comes back empty or does not lift
RECURSIVE read_columns(_, _)
read_columns(src, serial_types) ==
    LET push(c, more) ==
            IF more.st = "panic" THEN [st |-> "panic"]
            ELSE [st |-> "ok", columns |-> <<c.column>> \o more.columns]
        lift(column, c) ==
            IF ~c.ok THEN [st |-> "ok", columns |-> <<>>]
            ELSE push(c, read_columns(column.rest, serial_types))
        step(column) ==
            IF column.st = "panic" THEN [st |-> "panic"]
            ELSE IF column.cells = <<>> THEN [st |-> "ok", columns |-> <<>>]
            ELSE lift(column, schema_from_raw_column(column.cells))
    IN  step(read_raw_column(src, serial_types))

\* record::read::<_, SchemaColumn>
record_read(rr) ==
    LET collect(raw, columns) ==
            IF columns.st = "panic" THEN [st |-> "panic"]
            ELSE [st |-> "ok",
                  record |-> [header |-> raw.header, columns |-> columns.columns]]
        read_data(raw) ==
            IF raw.st # "ok" THEN [st |-> raw.st]
            ELSE collect(raw, read_columns(raw.data, raw.header.serial_types))
    IN  read_data(read_raw(rr))

\* the from_fn of record::read::<_, RawColumn>, collected: columns are
\* read from the data until one comes back empty (from_raw_column of a
\* RawColumn never fails).  A column that comes back with cells and without
\* a byte consumed comes back the same for ever: the collect does not
\* return ("hang"; the Vec grows until the allocation fails)
RECURSIVE read_raw_columns(_, _)
read_raw_columns(src, serial_types) ==
    LET push(column, more) ==
            IF more.st # "ok" THEN [st |-> more.st]
            ELSE [st |-> "ok", columns |-> <<column.cells>> \o more.columns]
        step(column) ==
            IF column.st = "panic" THEN [st |-> "panic"]
            ELSE IF column.cells = <<>> THEN [st |-> "ok", columns |-> <<>>]
            ELSE IF column.rest = src THEN [st |-> "hang"]
            ELSE push(column, read_raw_columns(column.rest, serial_types))
    IN  step(read_raw_column(src, serial_types))

(***************************************************************************)
(* src/database/btree.rs: B-tree pages and cells                           *)
(***************************************************************************)
\* BTreePageType::try_from had it taken the tag 0 of a zeroed page for a
\* leaf-table page
page_type_try_from_zeroed(b) ==
    CASE b = 2  -> [ok |-> TRUE, type |-> "InteriorIndex"]
      [] b = 5  -> [ok |-> TRUE, type |-> "InteriorTable"]
      [] b = 10 -> [ok |-> TRUE, type |-> "LeafIndex"]
      [] b \in {0, 13} -> [ok |-> TRUE, type |-> "LeafTable"]
      [] OTHER  -> [ok |-> FALSE, type |-> "BTreePageTypeError", other |-> b]

\* BTreePageType::try_from; the error is BTreePageTypeError(other)
page_type_try_from(b) ==
    CASE b = 2  -> [ok |-> TRUE, type |-> "InteriorIndex"]
      [] b = 5  -> [ok |-> TRUE, type |-> "InteriorTable"]
      [] b = 10 -> [ok |-> TRUE, type |-> "LeafIndex"]
      [] b = 13 -> [ok |-> TRUE, type |-> "LeafTable"]
      [] OTHER  -> [ok |-> FALSE, type |-> "BTreePageTypeError", other |-> b]

\* size_of::<BTreePageHeaderInner<u8>>() (packed: 1 + 2 + 2 + 2 + 1)
PAGE_HEADER_INNER_SIZE == 8

\* size_of::<u32>()
U32_SIZE == 4

\* size_of::<BTreeCellPointer>()
CELL_POINTER_SIZE == 2

\* btree::read_page_header_inner; the error of a tag that is no page type
\* is io::Error::new(InvalidData, BTreePageTypeError(tag))
read_page_header_inner(rr) ==
    LET lift(buf, ty) ==
            IF ~ty.ok
            THEN [st |-> "err", rest |-> buf.rest,
                  error |-> [kind |-> "InvalidData", other |-> ty.other]]
            ELSE [st |-> "ok",
                  inner |-> [type |-> ty.type,
                             first_freeblock_start |-> be16(buf.val[2], buf.val[3]),
                             cell_count |-> be16(buf.val[4], buf.val[5]),
                             content_area_start |-> be16(buf.val[6], buf.val[7]),
                             free_bytes_in_content_area |-> buf.val[8]],
                  rest |-> buf.rest]
        transmute(buf) ==
            IF ~buf.ok
            THEN [st |-> "err", rest |-> buf.rest,
                  error |-> [kind |-> "UnexpectedEof"]]
            ELSE lift(buf, page_type_try_from(buf.val[1]))
    IN  transmute(read_exact_vec(rr, PAGE_HEADER_INNER_SIZE))

\* the matches! of read_page_header had it named InteriorTable alone
is_interior_table(type) == type = "InteriorTable"

\* matches!(type, InteriorIndex | InteriorTable)
is_interior(type) == type \in {"InteriorIndex", "InteriorTable"}

\* btree::read_page_header: right_most_pointer is None (<<>>) or Some of the
\* 4 bytes of the big-endian u32 (<<bytes>>)
read_page_header(rr) ==
    LET some(inner, buf) ==
            IF ~buf.ok
            THEN [st |-> "err", rest |-> buf.rest,
                  error |-> [kind |-> "UnexpectedEof"]]
            ELSE [st |-> "ok",
                  header |-> [inner |-> inner.inner,
                              right_most_pointer |-> <<buf.val>>],
                  rest |-> buf.rest]
        lift(inner) ==
            IF inner.st # "ok" THEN inner
            ELSE IF is_interior(inner.inner.type)
            THEN some(inner, read_exact_vec(inner.rest, U32_SIZE))
            ELSE [st |-> "ok",
                  header |-> [inner |-> inner.inner, right_most_pointer |-> <<>>],
                  rest |-> inner.rest]
    IN  lift(read_page_header_inner(rr))

\* btree::size_of_page_header
size_of_page_header(header) ==
    PAGE_HEADER_INNER_SIZE
        + (IF header.right_most_pointer # <<>> THEN U32_SIZE ELSE 0)

\* btree::read_cell_pointer_array
read_cell_pointer_array(rr, cell_count) ==
    LET lift(buf) ==
            IF ~buf.ok
            THEN [st |-> "err", rest |-> buf.rest,
                  error |-> [kind |-> "UnexpectedEof"]]
            ELSE [st |-> "ok",
                  cell_pointers |-> [i \in 1..cell_count |->
                                        be16(buf.val[2 * i - 1], buf.val[2 * i])],
                  rest |-> buf.rest]
    IN  lift(read_exact_vec(rr, cell_count * CELL_POINTER_SIZE))

\* btree::size_of_cell_pointer_array
size_of_cell_pointer_array(xs) == Len(xs) * CELL_POINTER_SIZE

\* btree::read_page_inner
read_page_inner(rr) ==
    LET lift(header, ptrs) ==
            IF ptrs.st # "ok" THEN ptrs
            ELSE [st |-> "ok",
                  inner |-> [header |-> header.header,
                             cell_pointers |-> ptrs.cell_pointers],
                  rest |-> ptrs.rest]
        read_pointers(header) ==
            IF header.st # "ok" THEN header
            ELSE lift(header, read_cell_pointer_array(header.rest,
                                                      header.header.inner.cell_count))
    IN  read_pointers(read_page_header(rr))

\* btree::read_leaf_table_cell
read_leaf_table_cell(rr) ==
    LET lift(total_payload_bytes, rowid, initial_payload) ==
            IF ~initial_payload.ok THEN [st |-> "err"]
            ELSE [st |-> "ok",
                  cell |-> [total_payload_bytes |-> Varint(total_payload_bytes),
                            rowid |-> Varint(rowid),
                            initial_payload |-> initial_payload.val,
                            first_overflow_page_number |-> <<>>]]
        read_payload(total_payload_bytes, calculated_total_payload_bytes, rowid) ==
            IF ~rowid.ok THEN [st |-> "err"]
            ELSE IF vec_alloc(calculated_total_payload_bytes) = "panic"
            THEN [st |-> "panic"]
            ELSE lift(total_payload_bytes, rowid,
                      read_exact_u64(rowid.rest, calculated_total_payload_bytes))
        read_rowid(total_payload_bytes) ==
            IF ~total_payload_bytes.ok THEN [st |-> "err"]
            ELSE IF value_of_panics(total_payload_bytes, overflow_checks)
            THEN [st |-> "panic"]
            ELSE read_payload(total_payload_bytes, value_of(total_payload_bytes),
                              varint_read(total_payload_bytes.rest))
    IN  read_rowid(varint_read(rr))

\* btree::read_cell: every page type but LeafTable is todo!()
read_cell(rr, type) ==
    IF type = "LeafTable" THEN read_leaf_table_cell(rr) ELSE [st |-> "panic"]

\* the filter_map of parse_page_bytes, collected: a pointer below
\* content_offset underflows the subtraction, one past the end of content
\* is an out-of-range slice; a cell that fails to decode is dropped
RECURSIVE parse_cells(_, _, _, _)
parse_cells(cell_pointers, content, content_offset, type) ==
    LET push(cell, more) ==
            IF more.st = "panic" THEN [st |-> "panic"]
            ELSE [st |-> "ok",
                  content |-> (IF cell.st = "ok" THEN <<cell.cell>> ELSE <<>>)
                                  \o more.content]
        filter(cell) ==
            IF cell.st = "panic" THEN [st |-> "panic"]
            ELSE push(cell, parse_cells(Tail(cell_pointers), content,
                                        content_offset, type))
        slice(offset) ==
            IF offset < content_offset \/ offset - content_offset > Len(content)
            THEN [st |-> "panic"]
            ELSE filter(read_cell(SubSeq(content, offset - content_offset + 1,
                                         Len(content)), type))
    IN  IF cell_pointers = <<>> THEN [st |-> "ok", content |-> <<>>]
        ELSE slice(Head(cell_pointers))

\* parse_page_bytes had it decoded the cells in the order of their offsets
parse_page_bytes_by_offset(inner, content, initial_offset) ==
    LET ps == inner.cell_pointers
        before(k, j) == ps[k] < ps[j] \/ (ps[k] = ps[j] /\ k < j)
        sorted == [i \in 1..Len(ps) |->
                      ps[CHOOSE j \in 1..Len(ps) :
                             Cardinality({k \in 1..Len(ps) : before(k, j)}) = i - 1]]
        collect(cells) ==
            IF cells.st = "panic" THEN [st |-> "panic"]
            ELSE [st |-> "ok",
                  page |-> [read |-> TRUE, inner |-> inner, content |-> cells.content]]
    IN  collect(parse_cells(sorted, content,
                            size_of_page_header(inner.header)
                                + size_of_cell_pointer_array(ps) + initial_offset,
                            inner.header.inner.type))

\* read_page::parse_page_bytes
parse_page_bytes(inner, content, initial_offset) ==
    LET collect(cells) ==
            IF cells.st = "panic" THEN [st |-> "panic"]
            ELSE [st |-> "ok",
                  page |-> [read |-> TRUE, inner |-> inner, content |-> cells.content]]
        content_offset == size_of_page_header(inner.header)
                            + size_of_cell_pointer_array(inner.cell_pointers)
                            + initial_offset
    IN  collect(parse_cells(inner.cell_pointers, content, content_offset,
                            inner.header.inner.type))

\* btree::read_page
read_page(rr, initial_offset) ==
    LET parse_bytes(inner) ==
            IF inner.st # "ok" THEN [st |-> "err"]
            ELSE parse_page_bytes(inner.inner, inner.rest, initial_offset)
    IN  parse_bytes(read_page_inner(rr))

(***************************************************************************)
(* src/database/page.rs                                                    *)
(***************************************************************************)
\* btree::parse_cell::<SchemaColumn>
parse_cell(cell) == record_read(cell.initial_payload)

\* the two map_while of page::cells over the cells of the root page,
\* collected: the list ends at the first cell whose record does not decode
\* and at the first record without a column; the last column of a record
\* is its schema entry (pop)
RECURSIVE schema_cells_of(_)
schema_cells_of(content) ==
    LET push(rec, more) ==
            IF more.st = "panic" THEN [st |-> "panic"]
            ELSE [st |-> "ok",
                  schema_cells |->
                      <<[header |-> rec.record.header,
                         column |-> rec.record.columns[Len(rec.record.columns)]]>>
                          \o more.schema_cells]
        step(rec) ==
            CASE rec.st = "panic" -> [st |-> "panic"]
              [] rec.st = "err" -> [st |-> "ok", schema_cells |-> <<>>]
              [] OTHER ->
                   IF rec.record.columns = <<>>
                   THEN [st |-> "ok", schema_cells |-> <<>>]
                   ELSE push(rec, schema_cells_of(Tail(content)))
    IN  IF content = <<>> THEN [st |-> "ok", schema_cells |-> <<>>]
        ELSE step(parse_cell(Head(content)))

\* page::cells
cells(root, pages) ==
    LET collect(schema) ==
            IF schema.st = "panic" THEN [st |-> "panic"]
            ELSE [st |-> "ok",
                  page_cells |-> [read |-> TRUE,
                                  schema_cells |-> schema.schema_cells,
                                  btree_cells |-> [i \in 1..Len(pages) |->
                                                      pages[i].content]]]
    IN  collect(schema_cells_of(root.content))

\* PageCells::into_iter: schema_cells zipped with btree_cells
into_iter(pc_) ==
    LET zip(n) == [i \in 1..n |-> <<pc_.schema_cells[i], pc_.btree_cells[i]>>]
    IN  zip(IF Len(pc_.schema_cells) <= Len(pc_.btree_cells)
            THEN Len(pc_.schema_cells) ELSE Len(pc_.btree_cells))

(***************************************************************************)
(* The varint format of the specification (section 4.1), used to build    *)
(* the inputs of the round trip: the minimal encoding of a u64.            *)
(***************************************************************************)
\* the highest one bit of a non-zero u64
TopBit(v) == CHOOSE i \in v : \A j \in v : j <= i

\* the minimal number of bytes of the encoding of v (1..9)
MinimalLen(v) ==
    IF v = {} THEN 1
    ELSE IF TopBit(v) >= 56 THEN 9
    ELSE (TopBit(v) \div 7) + 1

\* the bits lo..lo+w-1 of v, moved down to 0..w-1, as a byte
Field(v, lo, w) == ByteOfBits({b - lo : b \in {x \in v : x >= lo /\ x < lo + w}})

\* the minimal encoding of v: 7 bits per byte with the continuation flag on
\* every byte but the last; in the 9-byte form the 9th byte holds 8 bits
Encode(v) ==
    LET n == MinimalLen(v)
    IN  IF n = 9
        THEN [i \in 1..9 |->
                 IF i = 9 THEN Field(v, 0, 8)
                 ELSE 128 + Field(v, 8 + 7 * (8 - i), 7)]
        ELSE [i \in 1..n |->
                 (IF i < n THEN 128 ELSE 0) + Field(v, 7 * (n - i), 7)]

\* 0, 127, 128, 2^14-1, 2^14, 2^56-1, 2^56, 2^64-1
RepresentativeValues ==
    {{}, 0..6, {7}, 0..13, {14}, 0..55, {56}, 0..63}

\* the encodings of the representative values
Encoded == [v \in RepresentativeValues |-> Encode(v)]

(***************************************************************************)
(* The byte sources offered to varint::read.                               *)
(***************************************************************************)
\* bytes with the continuation bit set
ContSamples == {129, 255}

\* the sources: runs of 0..MaxCont continuation bytes (k bytes of one
\* sample, then n - k of another), each followed by the end of the source,
\* a terminating byte, or a terminating byte and one more byte; and the
\* encodings of the representative values
VarintSources ==
    LET ContRuns(n) ==
            {[i \in 1..n |-> IF i <= k THEN c1 ELSE c2] :
                k \in 0..n, c1 \in ContSamples, c2 \in ContSamples}
        Endings == {<<>>, <<0>>, <<127>>, <<1, 129>>}
    IN  {c \o e : c \in UNION {ContRuns(n) : n \in 0..MaxCont}, e \in Endings}
            \cup {Encoded[v] : v \in RepresentativeValues}

NoVarint == [ok |-> FALSE, a0 |-> 0, tail |-> <<>>]

\* the variables of the file decoder, which reading one varint leaves alone
dbvars == <<alloc_fails, eof_consumes, database_header, root_page, tail,
            page_cells, pairs>>

\* the variables of the varint caller, which decoding a file leaves alone
varintvars == <<varint, value, size>>

\* the variables of the record decoder and of the page decoder
recordvars == <<raw_record, record, record_value>>
pagevars == <<page_offset, page_inner, btree_page>>

\* nothing decoded yet
NoRecord == [read |-> FALSE]

NoHeader == [read |-> FALSE]
NoPage == [read |-> FALSE]
NoPageCells == [read |-> FALSE]

(***************************************************************************)
(* SpecVarint: a caller reads one varint from a source and takes its       *)
(* value and its size.                                                     *)
(***************************************************************************)
InitVarint ==
    /\ input \in VarintSources
    /\ r = input
    /\ pc = "start"
    /\ varint = NoVarint
    /\ value = {}
    /\ size = 0
    /\ overflow_checks \in BOOLEAN
    /\ alloc_fails = FALSE
    /\ eof_consumes = FALSE
    /\ database_header = NoHeader
    /\ root_page = NoPage
    /\ tail = <<>>
    /\ page_cells = NoPageCells
    /\ pairs = <<>>
    /\ raw_record = NoRecord
    /\ record = NoRecord
    /\ record_value = NoRecord
    /\ page_offset = 0
    /\ page_inner = NoPage
    /\ btree_page = NoPage
    /\ sql_result = [ok |-> FALSE]

\* let v = varint::read(r)?
VarintRead ==
    /\ pc = "start"
    /\ LET res == varint_read(r)
       IN  /\ varint' = [ok |-> res.ok, a0 |-> res.a0, tail |-> res.tail]
           /\ r' = res.rest
           /\ pc' = IF res.ok THEN "read" ELSE "failed"
    /\ UNCHANGED sql_result
    /\ UNCHANGED <<input, value, size, overflow_checks>>
    /\ UNCHANGED dbvars
    /\ UNCHANGED <<recordvars, pagevars>>

\* varint::value_of(&v), varint::size_of(&v)
VarintValueOf ==
    /\ pc = "read"
    /\ IF value_of_panics(varint, overflow_checks)
       THEN pc' = "panic" /\ UNCHANGED <<value, size>>
       ELSE /\ value' = value_of(varint)
            /\ size' = size_of(varint)
            /\ pc' = "done"
    /\ UNCHANGED sql_result
    /\ UNCHANGED <<input, r, varint, overflow_checks>>
    /\ UNCHANGED dbvars
    /\ UNCHANGED <<recordvars, pagevars>>

NextVarint == VarintRead \/ VarintValueOf

SpecVarint == InitVarint /\ [][NextVarint]_vars

\* the number of bytes the reader has handed out
Consumed == Len(input) - Len(r)

(***************************************************************************)
(* C1: for every v of the representative set, reading the minimal encoding *)
(* of v and applying value_of gives v back, and size_of gives the minimal  *)
(* byte count of v.                                                        *)
(***************************************************************************)
C1_RoundTrip ==
    \A v \in RepresentativeValues :
        (input = Encoded[v] /\ pc = "done")
            => (value = v /\ size = MinimalLen(v))

(***************************************************************************)
(* C2: varint::read consumes at most 9 bytes: it stops at the first byte   *)
(* whose high bit is clear, or after the 9th byte whatever its high bit.   *)
(***************************************************************************)
C2_AtMostNineBytes ==
    (pc \in {"read", "done", "panic"})
        => /\ Consumed <= 9
           /\ \A i \in 1..(Consumed - 1) : high_bit_is_set(input[i])
           /\ (Consumed < 9 /\ r # <<>>) => ~high_bit_is_set(input[Consumed])

(***************************************************************************)
(* C3: when the source ends before the varint terminates (every byte of    *)
(* the source, at most 8 of them, has its continuation bit set),           *)
(* varint::read returns an error and never Ok with a partial varint.       *)
(***************************************************************************)
C3_TruncatedIsError ==
    (/\ pc # "start"
     /\ Len(input) <= 8
     /\ \A i \in 1..Len(input) : high_bit_is_set(input[i]))
        => pc = "failed"

(***************************************************************************)
(* C4: for every varint of 1 to 9 bytes, value_of is the concatenation,    *)
(* most significant byte first, of the low 7 bits of each of the first 8   *)
(* bytes and of all 8 bits of the 9th byte.                                *)
(***************************************************************************)
\* the value the format defines for the bytes bs of a varint
ConcatValue(bs) ==
    LET n == Len(bs)
    IN  UNION {IF i = 9
               THEN ByteAsU64(bs[i])
               ELSE U64Shl(ByteAsU64(bs[i]) \ {7},
                           IF n = 9 THEN 8 + 7 * (8 - i) ELSE 7 * (n - i))
               : i \in 1..n}

\* a varint that terminates: 9 bytes, or a last byte with a clear high bit
Terminated(v) ==
    varint_len(v) = 9 \/ ~high_bit_is_set(varint_iter(v)[varint_len(v)])

C4_ValueIsConcatenation ==
    (pc = "done" /\ size <= 9 /\ Terminated(varint))
        => value = ConcatValue(varint_iter(varint))

(***************************************************************************)
(* The file format, used to build the files the decoder is run on          *)
(* (specification sections 3, 4.3 to 4.5 and 6).                           *)
(***************************************************************************)
Zeros(n) == [i \in 1..n |-> 0]

\* the concatenation of a sequence of byte sequences
RECURSIVE Concat(_)
Concat(ss) == IF ss = <<>> THEN <<>> ELSE Head(ss) \o Concat(Tail(ss))

\* the varint of a number below 2^31
VarintOf(n) == Encode(U64OfNat(n))

\* "SQLite format 3\000"
MAGIC == <<83, 81, 76, 105, 116, 101, 32, 102, 111, 114, 109, 97, 116, 32, 51>> \o <<0>>

\* the 100-byte database header with the given header string and the given
\* stored page-size field
MkDatabaseHeader(magic, page_size_field) ==
    magic \o <<page_size_field \div 256, page_size_field % 256>>
          \o <<1, 1, 0, 64, 32, 32>> \o Zeros(76)

\* a record: the header length, the serial types, the values
MkRecord(serial_types, data) ==
    LET types == Concat([i \in 1..Len(serial_types) |-> VarintOf(serial_types[i])])
    IN  VarintOf(1 + Len(types)) \o types \o data

\* the serial type of a text
TextType(t) == 13 + 2 * Len(t)

\* a leaf-table cell: payload length, rowid, payload
MkLeafCell(rowid, payload) ==
    VarintOf(Len(payload)) \o VarintOf(rowid) \o payload

\* an interior-table cell: the child page number, the boundary key
MkInteriorCell(child, key) == <<0, 0, 0, child>> \o VarintOf(key)

TXT_TABLE == <<116, 97, 98, 108, 101>>

\* the DDL of a table: "CREATE TABLE <name> (id integer primary key, v text)"
MkCreateTable(name) ==
    <<67, 82, 69, 65, 84, 69, 32, 84, 65, 66, 76, 69, 32>> \o name
        \o <<32, 40, 105, 100, 32, 105, 110, 116, 101, 103, 101, 114, 32, 112,
             114, 105, 109, 97, 114, 121, 32, 107, 101, 121, 44, 32, 118, 32,
             116, 101, 120, 116, 41>>

\* the catalog row of a table: (type, name, tbl_name, rootpage, sql)
MkSchemaRow(name, rootpage) ==
    LET sql == MkCreateTable(name)
    IN  MkRecord(<<TextType(TXT_TABLE), TextType(name), TextType(name), 1,
                   TextType(sql)>>,
                 TXT_TABLE \o name \o name \o <<rootpage>> \o sql)

\* a data row of the table whose root is `tag`: (tag, rowid) as two 8-bit
\* integers
MkDataRow(tag, rowid) == MkRecord(<<1, 1>>, <<tag, rowid>>)

\* the total length of the first i cells
RECURSIVE SumLen(_, _)
SumLen(cs, i) == IF i = 0 THEN 0 ELSE Len(cs[i]) + SumLen(cs, i - 1)

\* a B-tree page of page_size bytes whose first initial_offset bytes belong
\* to something else (the database header on page 1): the page header, the
\* cell-pointer array in key order, free space, and the cells, the first
\* cell at the end of the page and each later one before it
MkPage(page_size, initial_offset, type, right_most, cs) ==
    LET n == Len(cs)
        at(i) == page_size - SumLen(cs, i)
        header == <<type, 0, 0, n \div 256, n % 256,
                    at(n) \div 256, at(n) % 256, 0>> \o right_most
        pointers == Concat([i \in 1..n |-> <<at(i) \div 256, at(i) % 256>>])
        used == initial_offset + Len(header) + Len(pointers)
    IN  header \o pointers \o Zeros(at(n) - used)
               \o Concat([i \in 1..n |-> cs[n + 1 - i]])

\* a leaf-table page holding the rows with the given rowids
MkLeafPage(page_size, tag, rowids) ==
    MkPage(page_size, 0, 13, <<>>,
           [i \in 1..Len(rowids) |-> MkLeafCell(rowids[i], MkDataRow(tag, rowids[i]))])

\* an interior-table page: (child, key) entries and the right-most child
MkInteriorPage(page_size, entries, right_most) ==
    MkPage(page_size, 0, 5, <<0, 0, 0, right_most>>,
           [i \in 1..Len(entries) |-> MkInteriorCell(entries[i][1], entries[i][2])])

\* page 1: the database header and the catalog page, one row per table
MkRootPage(magic, page_size_field, page_size, tables) ==
    MkDatabaseHeader(magic, page_size_field)
        \o MkPage(page_size, DATABASE_HEADER_SIZE, 13, <<>>,
                  [i \in 1..Len(tables) |->
                      MkLeafCell(i, MkSchemaRow(tables[i][1], tables[i][2]))])

\* the file with byte pos (counted from 1) replaced
WithByte(file, pos, b) == [file EXCEPT ![pos] = b]

(***************************************************************************)
(* The files the decoder is run on.                                        *)
(***************************************************************************)
\* the page size of the files that are built whole
PAGE_SIZE == 512

\* the most rows on a leaf page of a table
MaxRows == 2

TABLE_A == <<97>>
TABLE_B == <<98>>

\* the rowids 1..n of a leaf page
RowSets == {[i \in 1..n |-> i] : n \in 0..MaxRows}

\* a file: page 1 with the catalog of the tables, then the given pages
MkFile(tables, pages) ==
    MkRootPage(MAGIC, PAGE_SIZE, PAGE_SIZE, tables) \o Concat(pages)

\* catalogs of two tables with the roots 2 and 3, in either order
Catalogs ==
    {<<<<TABLE_A, 2>>, <<TABLE_B, 3>>>>, <<<<TABLE_A, 3>>, <<TABLE_B, 2>>>>,
     <<<<TABLE_B, 3>>, <<TABLE_A, 2>>>>, <<<<TABLE_B, 2>>, <<TABLE_A, 3>>>>}

\* well-formed files whose tables are single leaf pages
LeafFiles ==
    {MkFile(<<<<TABLE_A, 2>>>>, <<MkLeafPage(PAGE_SIZE, 2, rows)>>) :
        rows \in RowSets}
    \cup {MkFile(cat, <<MkLeafPage(PAGE_SIZE, 2, rows2),
                        MkLeafPage(PAGE_SIZE, 3, rows3)>>) :
            cat \in Catalogs, rows2 \in RowSets, rows3 \in RowSets}

\* well-formed files with one table whose root (page 2) is an interior page
InteriorFiles ==
    {MkFile(<<<<TABLE_A, 2>>>>,
            <<MkInteriorPage(PAGE_SIZE, <<<<3, 2>>>>, 4),
              MkLeafPage(PAGE_SIZE, 2, <<1, 2>>),
              MkLeafPage(PAGE_SIZE, 2, <<3, 4>>)>>),
     MkFile(<<<<TABLE_A, 2>>>>,
            <<MkInteriorPage(PAGE_SIZE, <<<<4, 2>>>>, 3),
              MkLeafPage(PAGE_SIZE, 2, <<3, 4>>),
              MkLeafPage(PAGE_SIZE, 2, <<1, 2>>)>>),
     MkFile(<<<<TABLE_A, 2>>>>,
            <<MkInteriorPage(PAGE_SIZE, <<>>, 3),
              MkLeafPage(PAGE_SIZE, 2, <<1, 2>>)>>)}

\* a well-formed file of two tables of two rows each
BaseFile ==
    MkFile(<<<<TABLE_A, 2>>, <<TABLE_B, 3>>>>,
           <<MkLeafPage(PAGE_SIZE, 2, <<1, 2>>), MkLeafPage(PAGE_SIZE, 3, <<1, 2>>)>>)

\* where the first cell of page n of BaseFile starts (counted from 1): it
\* is the last thing on the page
FirstCellAt(n, cell) == n * PAGE_SIZE - Len(cell) + 1

\* files with a damaged page or cell
CorruptFiles ==
    \* the page-type tag of page 2 and of page 1
    {WithByte(BaseFile, PAGE_SIZE + 1, t) : t \in {0, 2, 5, 10}}
    \cup {WithByte(BaseFile, DATABASE_HEADER_SIZE + 1, t) : t \in {0, 5, 10}}
    \* the high byte of the first cell pointer of page 2
    \cup {WithByte(BaseFile, PAGE_SIZE + PAGE_HEADER_INNER_SIZE + 1, b) :
            b \in {0, 255}}
    \* the payload length of the first cell of page 2
    \cup {WithByte(BaseFile,
                   FirstCellAt(2, MkLeafCell(1, MkDataRow(2, 1))), 127)}
    \* the header length and the first serial type of the first catalog row
    \cup {WithByte(BaseFile,
                   FirstCellAt(1, MkLeafCell(1, MkSchemaRow(TABLE_A, 2))) + 2 + k, b) :
            k \in {0, 1}, b \in {0, 2}}
    \* a payload length of 2^32, and one of 12 bytes
    \cup {MkFile(<<<<TABLE_A, 2>>>>,
                 <<MkPage(PAGE_SIZE, 0, 13, <<>>, <<v \o <<1>>>>)>>) :
            v \in {<<144, 128, 128, 128, 0>>,
                   [i \in 1..12 |-> IF i < 12 THEN 129 ELSE 0]}}
    \* the file cut short
    \cup {SubSeq(BaseFile, 1, k) :
            k \in {0, 50, DATABASE_HEADER_SIZE, 300, PAGE_SIZE, PAGE_SIZE + 200}}

\* files that differ in the header: the header string and the page size,
\* and one whole file of one page of 4096 bytes
HeaderFiles ==
    {MkRootPage(magic, field, PAGE_SIZE, <<<<TABLE_A, 2>>>>)
        \o MkLeafPage(PAGE_SIZE, 2, <<1>>) :
        magic \in {MAGIC, [MAGIC EXCEPT ![15] = 52]},
        field \in {PAGE_SIZE, 4096, 1, 600, 50, 0}}
    \cup {MkRootPage(MAGIC, 4096, 4096, <<<<TABLE_A, 2>>>>)}

\* files of two leaf pages after page 1 whose catalog has a row that is not
\* the row of a table with a one-byte root page: the row of an index
\* ("CREATE INDEX i ON a (v)"), a row of 4 columns, a row of 6 columns, and
\* rows whose root page is a text, a Null and a 2-byte integer; the row
\* comes first, or between the rows of two tables
CatalogFiles ==
    LET file(rows) ==
            MkDatabaseHeader(MAGIC, PAGE_SIZE)
                \o MkPage(PAGE_SIZE, DATABASE_HEADER_SIZE, 13, <<>>,
                          [i \in 1..Len(rows) |-> MkLeafCell(i, rows[i])])
                \o MkLeafPage(PAGE_SIZE, 2, <<1>>)
                \o MkLeafPage(PAGE_SIZE, 3, <<1>>)
        sql == MkCreateTable(TABLE_A)
        ddl == <<67, 82, 69, 65, 84, 69, 32, 73, 78, 68, 69, 88, 32, 105, 32,
                 79, 78, 32, 97, 32, 40, 118, 41>>
        types == <<TextType(TXT_TABLE), TextType(TABLE_A), TextType(TABLE_A)>>
        head == TXT_TABLE \o TABLE_A \o TABLE_A
        odd ==
            {MkRecord(<<TextType(<<105, 110, 100, 101, 120>>), TextType(<<105>>),
                        TextType(TABLE_A), 1, TextType(ddl)>>,
                      <<105, 110, 100, 101, 120>> \o <<105>> \o TABLE_A
                          \o <<3>> \o ddl),
             MkRecord(types \o <<1>>, head \o <<2>>),
             MkRecord(types \o <<1, TextType(sql), 1>>,
                      head \o <<2>> \o sql \o <<7>>),
             MkRecord(types \o <<15, TextType(sql)>>, head \o <<50>> \o sql),
             MkRecord(types \o <<0, TextType(sql)>>, head \o sql),
             MkRecord(types \o <<2, TextType(sql)>>, head \o <<0, 2>> \o sql)}
    IN  {file(<<row, MkSchemaRow(TABLE_B, 3)>>) : row \in odd}
        \cup {file(<<MkSchemaRow(TABLE_A, 2), row, MkSchemaRow(TABLE_B, 3)>>) :
                row \in odd}

Files ==
    LeafFiles \cup InteriorFiles \cup CorruptFiles \cup HeaderFiles
        \cup CatalogFiles

(***************************************************************************)
(* SpecDatabase: database::open on a file: page::read (the header and      *)
(* page 1, then page after page until one fails), page::cells, and the     *)
(* iteration over the result.                                              *)
(***************************************************************************)
InitDatabase ==
    /\ input \in Files
    /\ r = input
    /\ pc = "open"
    /\ varint = NoVarint
    /\ value = {}
    /\ size = 0
    /\ overflow_checks \in BOOLEAN
    /\ alloc_fails \in BOOLEAN
    /\ eof_consumes \in BOOLEAN
    /\ database_header = NoHeader
    /\ root_page = NoPage
    /\ tail = <<>>
    /\ page_cells = NoPageCells
    /\ pairs = <<>>
    /\ raw_record = NoRecord
    /\ record = NoRecord
    /\ record_value = NoRecord
    /\ page_offset = 0
    /\ page_inner = NoPage
    /\ btree_page = NoPage
    /\ sql_result = [ok |-> FALSE]

\* read_root_page: let database_header = database::read_header(r)?
ReadHeader ==
    /\ pc = "open"
    /\ LET return(h) ==
               IF h.st = "ok"
               THEN /\ database_header' = h.header
                    /\ r' = h.rest
                    /\ pc' = "root_page"
               ELSE /\ pc' = "failed"
                    /\ r' = <<>>
                    /\ UNCHANGED database_header
       IN  return(read_header(r))
    /\ UNCHANGED sql_result
    /\ UNCHANGED <<input, overflow_checks, alloc_fails, eof_consumes,
                   root_page, tail, page_cells, pairs>>
    /\ UNCHANGED varintvars
    /\ UNCHANGED <<recordvars, pagevars>>

\* a read_root_page that takes page_size bytes after the header instead of
\* page_size - 100: every later page is then read 100 bytes too far
ReadRootPageWhole ==
    /\ pc = "root_page"
    /\ LET return(bytes, page) ==
               CASE page.st = "panic" ->
                      pc' = "panic" /\ r' = bytes.rest /\ UNCHANGED root_page
                 [] page.st = "err" ->
                      pc' = "failed" /\ r' = bytes.rest /\ UNCHANGED root_page
                 [] OTHER ->
                      pc' = "tail" /\ r' = bytes.rest /\ root_page' = page.page
           decode(bytes) ==
               IF ~bytes.ok
               THEN pc' = "failed" /\ r' = <<>> /\ UNCHANGED root_page
               ELSE return(bytes, read_page(bytes.val, DATABASE_HEADER_SIZE))
       IN  decode(read_exact_vec(r, database_header.page_size))
    /\ UNCHANGED sql_result
    /\ UNCHANGED <<input, overflow_checks, alloc_fails, eof_consumes,
                   database_header, tail, page_cells, pairs>>
    /\ UNCHANGED varintvars
    /\ UNCHANGED <<recordvars, pagevars>>

\* read_root_page after the header: page_size - 100 bytes (the subtraction
\* underflows below 100), decoded as a B-tree page at offset 100
ReadRootPage ==
    /\ pc = "root_page"
    /\ LET return(bytes, page) ==
               CASE page.st = "panic" ->
                      pc' = "panic" /\ r' = bytes.rest /\ UNCHANGED root_page
                 [] page.st = "err" ->
                      pc' = "failed" /\ r' = bytes.rest /\ UNCHANGED root_page
                 [] OTHER ->
                      pc' = "tail" /\ r' = bytes.rest /\ root_page' = page.page
           decode(bytes) ==
               IF ~bytes.ok
               THEN pc' = "failed" /\ r' = <<>> /\ UNCHANGED root_page
               ELSE return(bytes, read_page(bytes.val, DATABASE_HEADER_SIZE))
       IN  IF database_header.page_size < DATABASE_HEADER_SIZE
           THEN pc' = "panic" /\ UNCHANGED <<r, root_page>>
           ELSE decode(read_exact_vec(r, database_header.page_size
                                            - DATABASE_HEADER_SIZE))
    /\ UNCHANGED sql_result
    /\ UNCHANGED <<input, overflow_checks, alloc_fails, eof_consumes,
                   database_header, tail, page_cells, pairs>>
    /\ UNCHANGED varintvars
    /\ UNCHANGED <<recordvars, pagevars>>

\* one call of the from_fn closure of page::read: page_size bytes decoded
\* as a B-tree page at offset 0; an error of either step ends the list
\* (`.ok()`) and page::read returns Ok
ReadTailPage ==
    /\ pc = "tail"
    /\ LET return(bytes, page) ==
               CASE page.st = "panic" ->
                      pc' = "panic" /\ r' = bytes.rest /\ UNCHANGED tail
                 [] page.st = "err" ->
                      pc' = "pages" /\ r' = bytes.rest /\ UNCHANGED tail
                 [] OTHER ->
                      pc' = "tail" /\ r' = bytes.rest
                                   /\ tail' = Append(tail, page.page)
           decode(bytes) ==
               IF ~bytes.ok
               THEN pc' = "pages" /\ r' = <<>> /\ UNCHANGED tail
               ELSE return(bytes, read_page(bytes.val, 0))
       IN  decode(read_exact_vec(r, database_header.page_size))
    /\ UNCHANGED sql_result
    /\ UNCHANGED <<input, overflow_checks, alloc_fails, eof_consumes,
                   database_header, root_page, page_cells, pairs>>
    /\ UNCHANGED varintvars
    /\ UNCHANGED <<recordvars, pagevars>>

\* database::open: page::cells(pages)
Cells ==
    /\ pc = "pages"
    /\ LET return(c) ==
               IF c.st = "panic"
               THEN pc' = "panic" /\ UNCHANGED page_cells
               ELSE pc' = "cells" /\ page_cells' = c.page_cells
       IN  return(cells(root_page, tail))
    /\ UNCHANGED sql_result
    /\ UNCHANGED <<input, r, overflow_checks, alloc_fails, eof_consumes,
                   database_header, root_page, tail, pairs>>
    /\ UNCHANGED varintvars
    /\ UNCHANGED <<recordvars, pagevars>>

\* PageCells::into_iter, collected
IntoIter ==
    /\ pc = "cells"
    /\ pairs' = into_iter(page_cells)
    /\ pc' = "done"
    /\ UNCHANGED sql_result
    /\ UNCHANGED <<input, r, overflow_checks, alloc_fails, eof_consumes,
                   database_header, root_page, tail, page_cells>>
    /\ UNCHANGED varintvars
    /\ UNCHANGED <<recordvars, pagevars>>

NextDatabase == ReadHeader \/ ReadRootPage \/ ReadTailPage \/ Cells \/ IntoIter

SpecDatabase == InitDatabase /\ [][NextDatabase]_vars

(***************************************************************************)
(* The file as the specification reads it (sections 4.2 to 4.7): the page  *)
(* size the header denotes, a page by its number, and the walk of a table  *)
(* B-tree from its root.                                                   *)
(***************************************************************************)
\* the positions the decoder stops at
Terminal == {"failed", "panic", "done"}

\* the stored page sizes the format allows: the powers of two from 512 to
\* 32768, and 1
ValidPageSizeField(field) == field = 1 \/ field \in {512 * Pow2(k) : k \in 0..6}

\* the stored page-size field of a file with a whole header
PageSizeField(file) == be16(file[17], file[18])

\* whether the file starts with a header the format allows
ValidHeader(file) ==
    /\ Len(file) >= DATABASE_HEADER_SIZE
    /\ SubSeq(file, 1, HEADER_STRING_SIZE) = MAGIC
    /\ ValidPageSizeField(PageSizeField(file))

\* the page size a stored field denotes
LogicalPageSize(field) == IF field = 1 THEN 65536 ELSE field

\* the number of whole pages of a file with a valid header
PageCount(file) == Len(file) \div LogicalPageSize(PageSizeField(file))

\* page n of the file: its type, its right-most child, and the bytes of its
\* cells from each cell pointer on (pointers count from the start of the
\* page; on page 1 the B-tree header follows the database header)
RefPage(file, n) ==
    LET page_size == LogicalPageSize(PageSizeField(file))
        bytes == SubSeq(file, (n - 1) * page_size + 1, n * page_size)
        lift(inner) ==
            IF inner.st # "ok" THEN [ok |-> FALSE]
            ELSE IF \E i \in 1..Len(inner.inner.cell_pointers) :
                        inner.inner.cell_pointers[i] >= page_size
            THEN [ok |-> FALSE]
            ELSE [ok |-> TRUE,
                  type |-> inner.inner.header.inner.type,
                  right_most_pointer |-> inner.inner.header.right_most_pointer,
                  cells |-> [i \in 1..Len(inner.inner.cell_pointers) |->
                                SubSeq(bytes, inner.inner.cell_pointers[i] + 1,
                                       page_size)]]
    IN  lift(read_page_inner(
                 IF n = 1 THEN SubSeq(bytes, DATABASE_HEADER_SIZE + 1, page_size)
                 ELSE bytes))

\* a page number of 4 big-endian bytes, 0 when it is not below 2^24
be32(b) == IF b[1] # 0 THEN 0 ELSE (b[2] * 256 + b[3]) * 256 + b[4]

\* the leaf cells of the tree under page n, depth first and left to right:
\* the cells of a leaf in array order; for an interior page the subtree of
\* each cell's child in array order, then that of the right-most child.
\* `fuel` bounds the depth, so that a cycle of pages ends the walk.
RECURSIVE Walk(_, _, _)
RECURSIVE WalkAll(_, _, _)
Walk(file, n, fuel) ==
    IF fuel = 0 \/ n < 1 \/ n > PageCount(file) THEN [ok |-> FALSE, cells |-> <<>>]
    ELSE LET page == RefPage(file, n)
         IN  CASE ~page.ok -> [ok |-> FALSE, cells |-> <<>>]
               [] page.ok /\ page.type = "LeafTable" ->
                    LET decoded == [i \in 1..Len(page.cells) |->
                                       read_leaf_table_cell(page.cells[i])]
                    IN  IF \E i \in 1..Len(decoded) : decoded[i].st # "ok"
                        THEN [ok |-> FALSE, cells |-> <<>>]
                        ELSE [ok |-> TRUE,
                              cells |-> [i \in 1..Len(decoded) |-> decoded[i].cell]]
               [] page.ok /\ page.type = "InteriorTable" ->
                    WalkAll(file,
                            [i \in 1..Len(page.cells) |->
                                IF Len(page.cells[i]) < U32_SIZE THEN 0
                                ELSE be32(SubSeq(page.cells[i], 1, U32_SIZE))]
                                \o <<be32(page.right_most_pointer[1])>>,
                            fuel - 1)
               [] OTHER -> [ok |-> FALSE, cells |-> <<>>]

WalkAll(file, children, fuel) ==
    IF children = <<>> THEN [ok |-> TRUE, cells |-> <<>>]
    ELSE LET first == Walk(file, Head(children), fuel)
             rest == WalkAll(file, Tail(children), fuel)
         IN  IF first.ok /\ rest.ok
             THEN [ok |-> TRUE, cells |-> first.cells \o rest.cells]
             ELSE [ok |-> FALSE, cells |-> <<>>]

\* the rows of the tree rooted at page n
Rows(file, n) == Walk(file, n, PageCount(file))

\* the type of page n, "" when the page does not decode
RootType(file, n) ==
    IF n < 1 \/ n > PageCount(file) THEN ""
    ELSE LET page == RefPage(file, n) IN IF page.ok THEN page.type ELSE ""

\* the catalog of the file: the schema entries of the rows of the tree
\* rooted at page 1, in rowid order
Catalog(file) ==
    LET rows == Rows(file, 1)
        entries == IF rows.ok THEN schema_cells_of(rows.cells)
                   ELSE [st |-> "err", schema_cells |-> <<>>]
    IN  IF rows.ok /\ entries.st = "ok"
           /\ Len(entries.schema_cells) = Len(rows.cells)
        THEN [ok |-> TRUE,
              roots |-> [i \in 1..Len(rows.cells) |->
                            entries.schema_cells[i].column.rootpage]]
        ELSE [ok |-> FALSE, roots |-> <<>>]

\* C5: reading the database header succeeds if and only if the 100 bytes
\* are there, the first 16 are the magic literal, and the stored page size
\* is a power of two in 512..32768 or 1
C5_HeaderAcceptedIffValid ==
    pc # "open" => (database_header.read <=> ValidHeader(input))

\* C6: once a header whose stored page size is 1 has been read, page 1 is
\* read as a page of 65536 bytes: the read takes 65536 bytes of the file,
\* or fails with an error when the file is shorter
C6_PageSizeOneIs65536 ==
    (database_header.read /\ database_header.page_size = 1 /\ pc # "root_page")
        => IF Len(input) >= LogicalPageSize(1)
           THEN pc # "panic" /\ Len(input) - Len(r) >= LogicalPageSize(1)
           ELSE pc = "failed"

\* C7: whatever the bytes of the file, decoding never panics or aborts
C7_NoPanic == pc # "panic"

\* C8: for a table whose root page is an interior page of a well-formed
\* tree, the decoder ends with the table's rows being the leaf cells of the
\* whole tree, depth first and left to right, in ascending rowid order
C8_TraversalInRowidOrder ==
    (pc \in Terminal /\ ValidHeader(input) /\ Catalog(input).ok)
        => \A i \in 1..Len(Catalog(input).roots) :
              LET root == Catalog(input).roots[i]
              IN  (RootType(input, root) = "InteriorTable" /\ Rows(input, root).ok)
                      => /\ pc = "done"
                         /\ i <= Len(pairs)
                         /\ pairs[i][2] = Rows(input, root).cells
                         /\ \A k \in 1..(Len(pairs[i][2]) - 1) :
                                U64AsNat(value_of(pairs[i][2][k].rowid))
                                    < U64AsNat(value_of(pairs[i][2][k + 1].rowid))

\* C9: in a well-formed file whose tables are single leaf pages, the
\* decoder ends with every schema entry paired with the cells of the page
\* its root_page names
C9_RowsOfOwnRootPage ==
    (pc \in Terminal /\ ValidHeader(input) /\ Catalog(input).ok
       /\ \A i \in 1..Len(Catalog(input).roots) :
             /\ RootType(input, Catalog(input).roots[i]) = "LeafTable"
             /\ Rows(input, Catalog(input).roots[i]).ok)
        => /\ pc = "done"
           /\ Len(pairs) = Len(Catalog(input).roots)
           /\ \A i \in 1..Len(pairs) :
                 /\ pairs[i][1].column.rootpage = Catalog(input).roots[i]
                 /\ pairs[i][2] = Rows(input, Catalog(input).roots[i]).cells

\* C10: when the read of the pages has returned successfully, every whole
\* page of the file is in the result and every page holds as many cells as
\* its header counts: a page or a cell that failed to decode was not left
\* out
C10_NoSilentOmission ==
    pc \in {"pages", "cells", "done"}
        => /\ 1 + Len(tail) = Len(input) \div database_header.page_size
           /\ Len(root_page.content) = root_page.inner.header.inner.cell_count
           /\ \A i \in 1..Len(tail) :
                 Len(tail[i].content) = tail[i].inner.header.inner.cell_count

(***************************************************************************)
(* The record payloads the record decoder is run on.                       *)
(***************************************************************************)
\* the most columns of a row
MaxColumns == 3

\* the values of the rows: Null, the integer 42, the texts "hello" and ""
RowValues ==
    <<[kind |-> "Null"],
      [kind |-> "TwosComplement8", val |-> 42],
      [kind |-> "EncodedString", val |-> <<104, 101, 108, 108, 111>>],
      [kind |-> "EncodedString", val |-> <<>>]>>

\* the payload of a row: the record header with the serial type of each
\* value, then the bytes of the values
EncodeRow(row) ==
    LET SerialTypeOf(v) ==
            CASE v.kind = "Null" -> 0
              [] v.kind = "TwosComplement8" -> 1
              [] OTHER -> TextType(v.val)
        BytesOf(v) ==
            CASE v.kind = "Null" -> <<>>
              [] v.kind = "TwosComplement8" -> <<v.val>>
              [] OTHER -> v.val
    IN  MkRecord([i \in 1..Len(row) |-> SerialTypeOf(RowValues[row[i]])],
                 Concat([i \in 1..Len(row) |-> BytesOf(RowValues[row[i]])]))

\* the rows of 1..MaxColumns values, each value by its place in RowValues,
\* each row with its payload
EncodedRows ==
    {<<row, EncodeRow(row)>> :
        row \in UNION {[1..n -> DOMAIN RowValues] : n \in 1..MaxColumns}}

\* the payloads of the rows, and payloads that are not the encoding of a
\* row: a row without its last byte, a row with one byte more, a header
\* whose last serial type is cut, headers whose length is 0 or more than
\* the payload, the empty payload, and rows of one value of each serial
\* type 2..12
Payloads ==
    {e[2] : e \in EncodedRows}
    \cup {SubSeq(e[2], 1, Len(e[2]) - 1) : e \in EncodedRows}
    \cup {e[2] \o <<7>> : e \in EncodedRows}
    \cup {<<3, 1, 129, 5, 6>>, <<0, 1, 2>>, <<128, 1, 7>>, <<9, 1>>, <<>>}
    \cup {<<2, s>> \o Zeros(8) : s \in 2..12}

(***************************************************************************)
(* SpecRecord: record::read::<_, RawColumn> on a payload: read_raw (the    *)
(* header, then the rest of the payload as data), then the columns.        *)
(***************************************************************************)
InitRecord ==
    /\ input \in Payloads
    /\ r = input
    /\ pc = "record"
    /\ varint = NoVarint
    /\ value = {}
    /\ size = 0
    /\ overflow_checks \in BOOLEAN
    /\ alloc_fails \in BOOLEAN
    /\ eof_consumes \in BOOLEAN
    /\ database_header = NoHeader
    /\ root_page = NoPage
    /\ tail = <<>>
    /\ page_cells = NoPageCells
    /\ pairs = <<>>
    /\ raw_record = NoRecord
    /\ record = NoRecord
    /\ record_value = NoRecord
    /\ page_offset = 0
    /\ page_inner = NoPage
    /\ btree_page = NoPage
    /\ sql_result = [ok |-> FALSE]

\* let RawRecord { header, data } = read_raw(r)?
ReadRaw ==
    /\ pc = "record"
    /\ LET return(res) ==
               CASE res.st = "panic" ->
                      pc' = "panic" /\ UNCHANGED <<r, raw_record>>
                 [] res.st = "err" ->
                      pc' = "failed" /\ UNCHANGED <<r, raw_record>>
                 [] OTHER ->
                      /\ pc' = "raw"
                      /\ r' = <<>>
                      /\ raw_record' = [read |-> TRUE, header |-> res.header,
                                        data |-> res.data]
       IN  return(read_raw(r))
    /\ UNCHANGED sql_result
    /\ UNCHANGED <<input, overflow_checks, record, record_value>>
    /\ UNCHANGED <<varintvars, dbvars, pagevars>>

\* the columns of record::read, and its Ok(Record { header, columns })
ReadColumns ==
    /\ pc = "raw"
    /\ LET return(columns) ==
               IF columns.st = "ok"
               THEN /\ pc' = "done"
                    /\ record' = [read |-> TRUE, header |-> raw_record.header,
                                  columns |-> columns.columns]
               ELSE pc' = columns.st /\ UNCHANGED record
       IN  return(read_raw_columns(raw_record.data,
                                   raw_record.header.serial_types))
    /\ UNCHANGED sql_result
    /\ UNCHANGED <<input, r, overflow_checks, raw_record, record_value>>
    /\ UNCHANGED <<varintvars, dbvars, pagevars>>

NextRecord == ReadRaw \/ ReadColumns

SpecRecord == InitRecord /\ [][NextRecord]_vars

(***************************************************************************)
(* The record format: the length of the value of a serial type.            *)
(***************************************************************************)
\* the bytes of the value of serial type s
SerialTypeSize(s) ==
    CASE s \in {0, 8, 9, 10, 11} -> 0
      [] s \in 1..4 -> s
      [] s = 5 -> 6
      [] s \in {6, 7} -> 8
      [] s >= 12 /\ s % 2 = 0 -> (s - 12) \div 2
      [] OTHER -> (s - 13) \div 2

\* the serial type a varint of the header stands for
SerialTypeNat(v) == U64AsNat(ConcatValue(varint_iter(v)))

\* the bytes of the values of a list of serial types
RECURSIVE PayloadSize(_)
PayloadSize(serial_types) ==
    IF serial_types = <<>> THEN 0
    ELSE SerialTypeSize(SerialTypeNat(Head(serial_types)))
             + PayloadSize(Tail(serial_types))

\* the data of the record read is not the values of its serial types: it
\* ends before the last value, or goes on after it
ColumnCountMismatch ==
    /\ raw_record.read
    /\ Len(raw_record.data) # PayloadSize(raw_record.header.serial_types)

\* C11: a record whose data ends before every serial type has its value, or
\* goes on after the last value, is not decoded: the decode fails with an
\* error, and no partial row comes back as a success
C11_MismatchIsError ==
    (ColumnCountMismatch /\ pc # "raw") => pc = "failed"

\* C12: the payload of one row decodes to exactly that row, and the whole
\* payload is consumed
C12_RowRoundTrip ==
    \A e \in EncodedRows :
        (pc \notin {"record", "raw"} /\ input = e[2])
            => /\ pc = "done"
               /\ record.columns = <<[i \in 1..Len(e[1]) |-> RowValues[e[1][i]]]>>
               /\ r = <<>>

\* the bytes of the varints of a list
RECURSIVE SumSizeOf(_)
SumSizeOf(vs) == IF vs = <<>> THEN 0 ELSE size_of(Head(vs)) + SumSizeOf(Tail(vs))

\* C14: the header of a record is its length varint and then the serial
\* types in exactly header_len - size_of(header_len) bytes: the varints of
\* the serial types fill these bytes, and every one of them is complete
C14_HeaderSerialTypes ==
    raw_record.read
        => LET header == raw_record.header
               header_len == U64AsNat(ConcatValue(varint_iter(header.size)))
           IN  /\ Len(input) - Len(raw_record.data) = header_len
               /\ SumSizeOf(header.serial_types) = header_len - size_of(header.size)
               /\ \A i \in DOMAIN header.serial_types :
                      Terminated(header.serial_types[i])

(***************************************************************************)
(* SpecValue: record::read_value on a reader, for one serial type.         *)
(***************************************************************************)
\* the largest serial type read
MaxSerialType == 27

\* the readers of a value: empty, of 1 byte, of 3 bytes, and of 9 bytes
ValueSources == {<<>>, <<42>>, <<200, 1, 2>>, <<1, 2, 3, 4, 5, 6, 7, 8, 9>>}

InitValue ==
    /\ input \in ValueSources
    /\ r = input
    /\ pc = "value"
    /\ \E s \in 0..MaxSerialType :
           LET v == varint_read(VarintOf(s))
           IN  varint = [ok |-> TRUE, a0 |-> v.a0, tail |-> v.tail]
    /\ value = {}
    /\ size = 0
    /\ overflow_checks \in BOOLEAN
    /\ alloc_fails \in BOOLEAN
    /\ eof_consumes \in BOOLEAN
    /\ database_header = NoHeader
    /\ root_page = NoPage
    /\ tail = <<>>
    /\ page_cells = NoPageCells
    /\ pairs = <<>>
    /\ raw_record = NoRecord
    /\ record = NoRecord
    /\ record_value = NoRecord
    /\ page_offset = 0
    /\ page_inner = NoPage
    /\ btree_page = NoPage
    /\ sql_result = [ok |-> FALSE]

\* read_value(r, &serial_type)
ReadValue ==
    /\ pc = "value"
    /\ LET return(v) ==
               CASE v.st = "panic" ->
                      pc' = "panic" /\ UNCHANGED <<r, record_value>>
                 [] v.st = "err" ->
                      pc' = "failed" /\ r' = v.rest /\ UNCHANGED record_value
                 [] OTHER ->
                      /\ pc' = "valued"
                      /\ r' = v.rest
                      /\ record_value' = [read |-> TRUE, value |-> v.val]
       IN  return(read_value(r, varint))
    /\ UNCHANGED sql_result
    /\ UNCHANGED <<input, overflow_checks, raw_record, record>>
    /\ UNCHANGED <<varintvars, dbvars, pagevars>>

SpecValue == InitValue /\ [][ReadValue]_vars

\* C13: the value of serial type s is read from exactly SerialTypeSize(s)
\* bytes and is of the variant of s: Null for 0, an integer for 1..6 and for
\* the literals 8 and 9, a float for 7, a blob for the even types from 12,
\* a text for the odd types from 13; the reserved types 10 and 11 are an error
C13_SerialTypes ==
    LET s == SerialTypeNat(varint)
        variant ==
            CASE s = 0 -> "Null"
              [] s \in 1..6 \cup {8, 9} -> "Integer"
              [] s = 7 -> "Float"
              [] s % 2 = 0 -> "Blob"
              [] OTHER -> "Text"
        variant_of(kind) ==
            CASE kind = "Null" -> "Null"
              [] kind = "TwosComplement8" -> "Integer"
              [] OTHER -> "Text"
    IN  pc # "value"
            => IF s \in {10, 11} THEN pc = "failed"
               ELSE Len(input) >= SerialTypeSize(s)
                        => /\ pc = "valued"
                           /\ Consumed = SerialTypeSize(s)
                           /\ variant_of(record_value.value.kind) = variant

(***************************************************************************)
(* SpecPage: btree::read_page on the bytes of one page: read_page_inner    *)
(* (the header and the cell-pointer array), then read_to_end and           *)
(* parse_page_bytes.                                                       *)
(***************************************************************************)
\* the most cells of a page that is built whole
MaxCells == 3

\* the largest payload a leaf-table cell holds whole on a page of U bytes
LocalPayloadThreshold(U) == U - 35

\* the pages read, each with its initial_offset (100 on page 1): leaf-table
\* pages of 0..MaxCells rows; such a page with each byte as its type tag;
\* interior pages; pages with the first cell pointer past the end of the
\* page, at its end, inside the header and inside the pointer array; pages
\* cut inside the header and inside the pointer array; and a page whose one
\* cell has a payload of one byte more than the threshold, of which the
\* threshold is in the cell, before the number of the overflow page; and
\* pages whose content_area_start is 0: an empty leaf page of 65536 bytes,
\* whose content area starts at its end, and pages of 512 bytes
PageSources ==
    LET leaf(off, n) ==
            MkPage(PAGE_SIZE, off, 13, <<>>,
                   [i \in 1..n |-> MkLeafCell(i, MkDataRow(2, i))])
        interior(off, type, n) ==
            MkPage(PAGE_SIZE, off, type, <<0, 0, 0, 9>>,
                   [i \in 1..n |-> MkInteriorCell(i + 1, i)])
        threshold == LocalPayloadThreshold(PAGE_SIZE)
        spilled ==
            VarintOf(threshold + 1) \o VarintOf(1)
                \o SubSeq(MkRecord(<<TextType(Zeros(threshold - 2))>>,
                                   Zeros(threshold - 2)), 1, threshold)
                \o <<0, 0, 0, 3>>
    IN  {<<leaf(off, n), off>> : off \in {0, DATABASE_HEADER_SIZE}, n \in 0..MaxCells}
        \cup {<<WithByte(leaf(off, 2), 1, t), off>> :
                off \in {0, DATABASE_HEADER_SIZE}, t \in 0..255}
        \cup {<<interior(off, type, n), off>> :
                off \in {0, DATABASE_HEADER_SIZE}, type \in {2, 5}, n \in 0..2}
        \cup {<<WithByte(WithByte(leaf(off, 2), 9, p[1]), 10, p[2]), off>> :
                off \in {0, DATABASE_HEADER_SIZE},
                p \in {<<2, 4>>, <<255, 255>>, <<2, 0>>, <<0, 4>>, <<0, 9>>,
                       <<0, 112>>}}
        \cup {<<SubSeq(leaf(0, 2), 1, k), 0>> : k \in {0, 5, 8, 9, 11}}
        \cup {<<MkPage(PAGE_SIZE, 0, 13, <<>>, <<spilled>>), 0>>}
        \cup {<<<<13, 0, 0, 0, 0, 0, 0, 0>> \o Zeros(65528), 0>>,
               <<WithByte(WithByte(leaf(0, 2), 6, 0), 7, 0), 0>>,
               <<WithByte(WithByte(interior(0, 5, 1), 6, 0), 7, 0), 0>>}

InitPage ==
    /\ \E src \in PageSources : input = src[1] /\ page_offset = src[2]
    /\ r = input
    /\ pc = "page"
    /\ varint = NoVarint
    /\ value = {}
    /\ size = 0
    /\ overflow_checks \in BOOLEAN
    /\ alloc_fails \in BOOLEAN
    /\ eof_consumes \in BOOLEAN
    /\ database_header = NoHeader
    /\ root_page = NoPage
    /\ tail = <<>>
    /\ page_cells = NoPageCells
    /\ pairs = <<>>
    /\ raw_record = NoRecord
    /\ record = NoRecord
    /\ record_value = NoRecord
    /\ page_inner = NoPage
    /\ btree_page = NoPage
    /\ sql_result = [ok |-> FALSE]

\* read_page_inner(r)
ReadPageInner ==
    /\ pc = "page"
    /\ LET return(inner) ==
               IF inner.st = "ok"
               THEN /\ pc' = "inner"
                    /\ r' = inner.rest
                    /\ page_inner' = [read |-> TRUE,
                                      header |-> inner.inner.header,
                                      cell_pointers |-> inner.inner.cell_pointers]
               ELSE /\ pc' = "failed"
                    /\ r' = inner.rest
                    /\ page_inner' = [read |-> FALSE, error |-> inner.error]
       IN  return(read_page_inner(r))
    /\ UNCHANGED sql_result
    /\ UNCHANGED <<input, overflow_checks, page_offset, btree_page>>
    /\ UNCHANGED <<varintvars, dbvars, recordvars>>

\* read_to_end(r, &mut content), and parse_page_bytes
ParsePageBytes ==
    /\ pc = "inner"
    /\ r' = <<>>
    /\ LET return(page) ==
               IF page.st = "ok"
               THEN pc' = "parsed" /\ btree_page' = page.page
               ELSE pc' = "panic" /\ UNCHANGED btree_page
       IN  return(parse_page_bytes([header |-> page_inner.header,
                                    cell_pointers |-> page_inner.cell_pointers],
                                   r, page_offset))
    /\ UNCHANGED sql_result
    /\ UNCHANGED <<input, overflow_checks, page_offset, page_inner>>
    /\ UNCHANGED <<varintvars, dbvars, recordvars>>

SpecPage == InitPage /\ [][ReadPageInner \/ ParsePageBytes]_vars

(***************************************************************************)
(* SpecBTree: read_page of src/btree.rs on the bytes of a page.            *)
(***************************************************************************)
\* btree::read_page of src/btree.rs: the header and the cell pointer array
\* (read as in database/btree.rs), then
\* `content_area_start as usize - currently_read`, which underflows when
\* content_area_start is below the bytes read so far: a panic with overflow
\* checks, a wrapped value (only printed) without; then read_to_end
btree_read_page(rr) ==
    LET return(inner, currently_read) ==
            IF inner.inner.header.inner.content_area_start < currently_read
               /\ overflow_checks
            THEN [st |-> "panic", rest |-> inner.rest]
            ELSE [st |-> "ok",
                  page |-> [read |-> TRUE,
                            header |-> inner.inner.header,
                            cell_pointers |-> inner.inner.cell_pointers,
                            reserved_area |-> <<>>,
                            content |-> inner.rest],
                  rest |-> <<>>]
        subtract(inner) ==
            IF inner.st # "ok" THEN inner
            ELSE return(inner,
                        size_of_page_header(inner.inner.header)
                            + size_of_cell_pointer_array(inner.inner.cell_pointers))
    IN  subtract(read_page_inner(rr))

\* one call of read_page on the source
BTreeReadPage ==
    /\ pc = "page"
    /\ LET return(page) ==
               /\ r' = page.rest
               /\ CASE page.st = "ok" ->
                         pc' = "page_read" /\ btree_page' = page.page
                    [] page.st = "panic" ->
                         pc' = "panic" /\ UNCHANGED btree_page
                    [] OTHER ->
                         pc' = "failed" /\ UNCHANGED btree_page
       IN  return(btree_read_page(r))
    /\ UNCHANGED sql_result
    /\ UNCHANGED <<input, overflow_checks, page_offset, page_inner>>
    /\ UNCHANGED <<varintvars, dbvars, recordvars>>

SpecBTree == InitPage /\ [][BTreeReadPage]_vars

\* the bytes of the page: input is the page without its first page_offset
\* bytes
PageLen == page_offset + Len(input)

\* what read_leaf_table_cell decodes from byte p of the page (counted from
\* 0) on
CellAt(p) == read_leaf_table_cell(SubSeq(input, p - page_offset + 1, Len(input)))

\* the cells at the pointers of the page, in the order of the pointer
\* array, without those that do not decode
CellsAtPointers ==
    Concat([i \in 1..Len(page_inner.cell_pointers) |->
               IF CellAt(page_inner.cell_pointers[i]).st = "ok"
               THEN <<CellAt(page_inner.cell_pointers[i]).cell>>
               ELSE <<>>])

\* the first byte of the page after the page header and the pointer array
ContentStart ==
    page_offset + (IF input[1] \in {2, 5} THEN 12 ELSE 8)
                + 2 * Len(page_inner.cell_pointers)

\* C15: a cell of a leaf-table page holds min(total_payload_len, threshold)
\* bytes of its payload, and the number of an overflow page exactly when
\* the payload is longer than the threshold
C15_LocalPayload ==
    (pc = "parsed" /\ btree_page.inner.header.inner.type = "LeafTable")
        => \A i \in DOMAIN btree_page.content :
               LET cell == btree_page.content[i]
                   total == U64AsNat(ConcatValue(varint_iter(cell.total_payload_bytes)))
                   threshold == LocalPayloadThreshold(PageLen)
               IN  /\ Len(cell.initial_payload)
                          = IF total < threshold THEN total ELSE threshold
                   /\ (cell.first_overflow_page_number # <<>>) <=> (total > threshold)

\* C16: a page header of 8 bytes is accepted for its tag exactly when the
\* tag is 2, 5, 10 or 13 (interior index, interior table, leaf index, leaf
\* table); any other tag is an error that carries the tag, and it is
\* raised after the 8 bytes of the header, before a cell pointer is read
C16_PageTypeTags ==
    (pc # "page" /\ Len(input) >= PAGE_HEADER_INNER_SIZE)
        => IF input[1] \in {2, 5, 10, 13}
           THEN IF page_inner.read
                THEN page_inner.header.inner.type
                         = CASE input[1] = 2 -> "InteriorIndex"
                             [] input[1] = 5 -> "InteriorTable"
                             [] input[1] = 10 -> "LeafIndex"
                             [] OTHER -> "LeafTable"
                ELSE page_inner.error.kind # "InvalidData"
           ELSE /\ pc = "failed"
                /\ ~page_inner.read
                /\ page_inner.error.kind = "InvalidData"
                /\ page_inner.error.other = input[1]
                /\ Consumed = PAGE_HEADER_INNER_SIZE

\* C16 witness: a page whose tag is 7 has failed with the error of tag 7
C16_Witness ==
    /\ pc = "failed"
    /\ input # <<>>
    /\ input[1] = 7
    /\ page_inner.error.kind = "InvalidData"
    /\ page_inner.error.other = 7

\* C17: a decoded page has cell_count cell pointers, each the big-endian
\* u16 at its place after the header, and a right-most pointer exactly
\* when its type is interior (tag 2 or 5)
C17_CellPointers ==
    page_inner.read
        => LET at == IF input[1] \in {2, 5} THEN 12 ELSE 8
               cell_count == input[4] * 256 + input[5]
           IN  /\ Len(page_inner.cell_pointers) = cell_count
               /\ page_inner.header.inner.cell_count = cell_count
               /\ \A i \in 1..cell_count :
                      page_inner.cell_pointers[i]
                          = input[at + 2 * i - 1] * 256 + input[at + 2 * i]
               /\ (page_inner.header.right_most_pointer # <<>>)
                      <=> (input[1] \in {2, 5})
               /\ (input[1] \in {2, 5})
                      => page_inner.header.right_most_pointer
                             = <<SubSeq(input, 9, 12)>>

\* C17 witness: a leaf-table page of 3 cells is decoded, with 3 pointers and
\* no right-most pointer
C17_Witness ==
    /\ page_inner.read
    /\ input[1] = 13
    /\ input[5] = 3
    /\ Len(page_inner.cell_pointers) = 3
    /\ page_inner.header.right_most_pointer = <<>>

\* C18: on a page whose pointers are all in the content of the page, on
\* page 1 and on the others, with a leaf header and with an interior one,
\* the cell decoded for pointer p is the cell that starts at byte p of the
\* page
C18_CellAtPointer ==
    (/\ page_inner.read
     /\ pc \notin {"page", "inner"}
     /\ \A i \in DOMAIN page_inner.cell_pointers :
            page_inner.cell_pointers[i] \in ContentStart..(PageLen - 1))
        => /\ pc = "parsed"
           /\ btree_page.content = CellsAtPointers

\* C19: the cells of a leaf-table page come in the order of the pointer
\* array, whatever the order of their offsets
C19_PointerArrayOrder ==
    (pc = "parsed" /\ btree_page.inner.header.inner.type = "LeafTable")
        => btree_page.content = CellsAtPointers

\* C19 witness: a leaf-table page of 3 cells whose pointers are in
\* descending order of offset has been parsed to its 3 cells
C19_Witness ==
    /\ pc = "parsed"
    /\ btree_page.inner.header.inner.type = "LeafTable"
    /\ Len(btree_page.content) = 3
    /\ page_inner.cell_pointers[1] > page_inner.cell_pointers[2]
    /\ page_inner.cell_pointers[2] > page_inner.cell_pointers[3]

\* C20: a leaf-table page with a cell pointer past its end, or inside its
\* header or its pointer array, is not parsed: the read of the page fails
\* with an error
C20_PointerOutOfPage ==
    (/\ page_inner.read
     /\ pc \notin {"page", "inner"}
     /\ page_inner.header.inner.type = "LeafTable"
     /\ \E i \in DOMAIN page_inner.cell_pointers :
            page_inner.cell_pointers[i] \notin ContentStart..(PageLen - 1))
        => pc = "failed"

\* the rows of the catalog (the tree rooted at page 1) as the record format
\* reads them: the serial types of the header as numbers, and the values;
\* no types and no values for a row whose record does not decode
SchemaRows(file) ==
    LET rows == Rows(file, 1).cells
        values(raw, column) ==
            [types |-> [k \in 1..Len(raw.header.serial_types) |->
                           SerialTypeNat(raw.header.serial_types[k])],
             cells |-> IF column.st = "ok" THEN column.cells ELSE <<>>]
        decode(raw) ==
            IF raw.st # "ok" THEN [types |-> <<>>, cells |-> <<>>]
            ELSE values(raw, read_raw_column(raw.data, raw.header.serial_types))
    IN  [i \in 1..Len(rows) |-> decode(read_raw(rows[i].initial_payload))]

\* C21: when the catalog has been loaded, every row of page 1 has exactly 5
\* columns and an integer (serial type 1..6, 8 or 9) as its root page; a
\* row of another shape is an error of the load
C21_MalformedSchemaRow ==
    (pc \in {"cells", "done"} /\ ValidHeader(input) /\ Rows(input, 1).ok)
        => \A i \in DOMAIN SchemaRows(input) :
               /\ Len(SchemaRows(input)[i].types) = 5
               /\ SchemaRows(input)[i].types[4] \in (1..6) \cup {8, 9}

\* C22: the loaded catalog has one entry for every row of page 1, in the
\* order of the rows, whatever the DDL of the row: with rows of 5 columns
\* whose root page is a one-byte integer and whose other columns are texts,
\* entry i has the name and the root page of row i
C22_OneEntryPerRow ==
    (/\ pc \in {"cells", "done"}
     /\ ValidHeader(input)
     /\ Rows(input, 1).ok
     /\ \A i \in DOMAIN SchemaRows(input) :
            /\ Len(SchemaRows(input)[i].types) = 5
            /\ Len(SchemaRows(input)[i].cells) = 5
            /\ SchemaRows(input)[i].types[4] = 1
            /\ \A k \in {1, 2, 3, 5} :
                   /\ SchemaRows(input)[i].types[k] >= 13
                   /\ SchemaRows(input)[i].types[k] % 2 = 1)
        => /\ Len(page_cells.schema_cells) = Len(SchemaRows(input))
           /\ \A i \in DOMAIN SchemaRows(input) :
                  /\ page_cells.schema_cells[i].column.name
                         = SchemaRows(input)[i].cells[2].val
                  /\ page_cells.schema_cells[i].column.rootpage
                         = SchemaRows(input)[i].cells[4].val

\* C23: page n (n >= 2) is decoded from exactly the page_size bytes at file
\* offset (n - 1) * page_size, and page 1 from the bytes [0, page_size) of
\* which the first 100 are the database header: every page read is the
\* decoding of these bytes, and the source has advanced by one page_size
\* for every page read
C23_PageOffsets ==
    LET page_size == LogicalPageSize(PageSizeField(input))
        PageAt(n, initial_offset) ==
            read_page(SubSeq(input, (n - 1) * page_size + initial_offset + 1,
                             n * page_size), initial_offset)
    IN  root_page.read =>
            /\ PageAt(1, DATABASE_HEADER_SIZE).st = "ok"
            /\ root_page = PageAt(1, DATABASE_HEADER_SIZE).page
            /\ \A k \in 1..Len(tail) :
                   /\ PageAt(k + 1, 0).st = "ok"
                   /\ tail[k] = PageAt(k + 1, 0).page
            /\ pc = "tail" =>
                   Len(input) - Len(r) = (1 + Len(tail)) * page_size

\* C23 witness: a file of three pages has been read to its end, page 2 and
\* page 3 after page 1
C23_Witness ==
    /\ pc = "done"
    /\ root_page.read
    /\ Len(tail) = 2
    /\ Len(input) = 3 * LogicalPageSize(PageSizeField(input))

\* C24: a page whose header and pointer array decode and whose
\* content_area_start is stored as 0 is read without a failure or an
\* underflow, and the value is taken as 65536
C24_ContentAreaStartZero ==
    (/\ pc # "page"
     /\ Len(input) >= PAGE_HEADER_INNER_SIZE
     /\ input[6] = 0
     /\ input[7] = 0
     /\ read_page_inner(input).st = "ok")
        => /\ pc = "page_read"
           /\ btree_page.header.inner.content_area_start = 65536

(***************************************************************************)
(* SpecSql: sql::parse on the bytes of a statement.                        *)
(***************************************************************************)
\* CREATE TABLE statements as <<the text, the table name, the columns>>, a
\* column being <<its name, its declared type>>: the keywords in upper,
\* lower and mixed case, the columns separated by "," or ", "; the columns
\* of the statement of the tests of sql.rs, and lists with a column without
\* a declared type and with the type decimal(10,2)
CreateTableStatements ==
    LET integer_primary_key ==
            <<105, 110, 116, 101, 103, 101, 114, 32, 112, 114, 105, 109, 97,
              114, 121, 32, 107, 101, 121>>
        text == <<116, 101, 120, 116>>
        column(cols, i, sep) ==
            (IF i > 1 THEN sep ELSE <<>>) \o cols[i][1]
                \o (IF cols[i][2] = <<>> THEN <<>> ELSE <<32>> \o cols[i][2])
        statement(keywords, name, cols, sep) ==
            keywords \o <<32>> \o name \o <<32, 40>>
                \o Concat([i \in 1..Len(cols) |-> column(cols, i, sep)])
                \o <<41>>
    IN  {<<statement(keywords, name, cols, sep), name, cols>> :
            keywords \in {<<67, 82, 69, 65, 84, 69, 32, 84, 65, 66, 76, 69>>,
                          KW_CREATE_TABLE,
                          <<67, 114, 101, 97, 116, 101, 32, 84, 97, 98, 108,
                            101>>},
            name \in {TABLE_A, <<116, 97, 98, 108, 101, 110, 97, 109, 101>>},
            sep \in {<<44>>, <<44, 32>>},
            cols \in
                {<<<<<<105, 100>>, integer_primary_key>>,
                   <<<<98, 117, 116, 116, 101, 114, 115, 99, 111, 116, 99,
                       104>>,
                     text>>,
                   <<<<115, 116, 114, 97, 119, 98, 101, 114, 114, 121>>, text>>,
                   <<<<99, 104, 111, 99, 111, 108, 97, 116, 101>>, text>>,
                   <<<<112, 105, 115, 116, 97, 99, 104, 105, 111>>, text>>,
                   <<<<99, 111, 102, 102, 101, 101>>, text>>>>,
                 <<<<<<105, 100>>, integer_primary_key>>, <<<<118>>, text>>>>,
                 <<<<<<105, 100>>, integer_primary_key>>, <<<<118>>, <<>>>>,
                   <<<<119>>, text>>>>,
                 <<<<<<105, 100>>, <<105, 110, 116, 101, 103, 101, 114>>>>,
                   <<<<110>>,
                     <<100, 101, 99, 105, 109, 97, 108, 40, 49, 48, 44, 50,
                       41>>>>>>,
                 <<<<<<118>>, text>>>>}}

\* SELECT statements as <<the text, the column list, the table name>>: the
\* keywords in upper, lower and mixed case; the statement of the tests of
\* sql.rs, lists of several columns, "*", and the identifiers fromage and
\* wherefrom
SelectStatements ==
    {<<sel \o <<32>> \o columns \o <<32>> \o from \o <<32>> \o table,
       columns, table>> :
        sel \in {<<83, 69, 76, 69, 67, 84>>, KW_SELECT,
                 <<83, 101, 108, 101, 99, 116>>},
        from \in {<<70, 82, 79, 77>>, KW_FROM},
        columns \in {<<98, 117, 116, 116, 101, 114, 115, 99, 111, 116, 99,
                       104>>,
                     <<105, 100, 44, 32, 118>>, <<42>>,
                     <<102, 114, 111, 109, 97, 103, 101>>,
                     <<105, 100, 44, 32, 119, 104, 101, 114, 101, 102, 114,
                       111, 109>>},
        table \in {<<112, 105, 115, 116, 97, 99, 104, 105, 111>>, TABLE_A,
                   <<102, 114, 111, 109, 97, 103, 101>>}}

InitSql ==
    /\ input \in {s[1] : s \in CreateTableStatements}
                    \cup {s[1] : s \in SelectStatements}
                    \cup {<<>>, <<255>>, KW_SELECT, KW_CREATE_TABLE,
                          <<68, 82, 79, 80, 32, 84, 65, 66, 76, 69, 32, 97>>}
    /\ r = input
    /\ pc = "sql"
    /\ varint = NoVarint
    /\ value = {}
    /\ size = 0
    /\ overflow_checks \in BOOLEAN
    /\ alloc_fails \in BOOLEAN
    /\ eof_consumes \in BOOLEAN
    /\ database_header = NoHeader
    /\ root_page = NoPage
    /\ tail = <<>>
    /\ page_cells = NoPageCells
    /\ pairs = <<>>
    /\ raw_record = NoRecord
    /\ record = NoRecord
    /\ record_value = NoRecord
    /\ page_offset = 0
    /\ page_inner = NoPage
    /\ btree_page = NoPage
    /\ sql_result = [ok |-> FALSE]

\* sql::parse(data): the bytes are collected, and the statement or an error
\* is returned
SqlParse ==
    /\ pc = "sql"
    /\ r' = <<>>
    /\ LET return(q) ==
               IF q.ok
               THEN pc' = "parsed" /\ sql_result' = q
               ELSE pc' = "failed" /\ UNCHANGED sql_result
       IN  return(parse(r))
    /\ UNCHANGED <<input, overflow_checks>>
    /\ UNCHANGED <<varintvars, dbvars, recordvars, pagevars>>

SpecSql == InitSql /\ [][SqlParse]_vars

\* C25: sql::parse of a CREATE TABLE statement, its keywords in any case,
\* gives the table name and a signature with one entry for every column:
\* the name of column i maps to (i - 1, its declared type)
C25_CreateTableSignature ==
    pc # "sql" =>
        \A s \in CreateTableStatements :
            s[1] = input =>
                /\ pc = "parsed"
                /\ sql_result.kind = "CreateTable"
                /\ sql_result.name = s[2]
                /\ sql_result.signature
                       = [name \in {s[3][i][1] : i \in 1..Len(s[3])} |->
                             LET k == CHOOSE j \in 1..Len(s[3]) :
                                          s[3][j][1] = name
                             IN  <<k - 1, s[3][k][2]>>]

\* C26: sql::parse of "SELECT <columns> FROM <table>" gives the trimmed
\* column list as the query and the trimmed table name as the source, for
\* every column list and table name, identifiers that contain the letters
\* "from" included
C26_SelectQueryAndSource ==
    pc # "sql" =>
        \A s \in SelectStatements :
            s[1] = input =>
                /\ pc = "parsed"
                /\ sql_result.kind = "Select"
                /\ sql_result.query = s[2]
                /\ sql_result.source = s[3]

\* C27: record::read returns on every payload, whatever its serial types:
\* the collection of the columns never goes on for ever, also when serial
\* types of no width (Null, 0, 1) come first
C27_ReadTerminates == pc # "hang"

\* C28: after a successful varint::read the source has advanced by exactly
\* size_of(result) bytes, at least one, and by no byte after the byte that
\* ends the varint: the first byte with a clear high bit, or the 9th byte
C28_AdvanceIsSizeOf ==
    pc = "read" =>
        /\ Consumed = size_of(varint)
        /\ Consumed >= 1
        /\ \A n \in 1..Len(input) :
               (/\ n <= 9
                /\ \A i \in 1..(n - 1) : high_bit_is_set(input[i])
                /\ n = 9 \/ ~high_bit_is_set(input[n]))
                   => Consumed <= n

\* C29: a record whose header length is below the bytes of its own varint
\* (0 in one byte, 1 in two bytes) is an error of read_header: no panic, no
\* allocation, no record
C29_HeaderLengthBelowItsSize ==
    (/\ pc # "record"
     /\ \E n \in 1..Len(input) :
            /\ n <= 9
            /\ \A i \in 1..(n - 1) : high_bit_is_set(input[i])
            /\ n = 9 \/ ~high_bit_is_set(input[n])
            /\ U64IsSmall(ConcatValue(SubSeq(input, 1, n)))
            /\ U64AsNat(ConcatValue(SubSeq(input, 1, n))) < n)
        => pc = "failed"

(***************************************************************************)
(* SpecRead: database::read on a file: read_with reads the header, and its *)
(* iterator reads one table of page_size bytes at every call.              *)
(***************************************************************************)
\* the tables taken from the iterator at most
MaxPages == 4

\* read_with: read_header(&mut r).map(..)
ReadWith ==
    /\ pc = "open"
    /\ LET return(h) ==
               IF h.st = "ok"
               THEN /\ database_header' = h.header
                    /\ r' = h.rest
                    /\ pc' = "content"
               ELSE /\ pc' = "failed"
                    /\ r' = <<>>
                    /\ UNCHANGED database_header
       IN  return(read_header(r))
    /\ UNCHANGED sql_result
    /\ UNCHANGED <<input, overflow_checks, alloc_fails, eof_consumes,
                   root_page, tail, page_cells, pairs>>
    /\ UNCHANGED varintvars
    /\ UNCHANGED <<recordvars, pagevars>>

\* one call of the from_fn closure of read_with, with f = read_table(..).ok():
\* a buffer of page_size bytes is filled from the reader; Some(table), or
\* None at the first read that fails, which ends the iteration
ReadTable ==
    /\ pc = "content"
    /\ Len(tail) < MaxPages
    /\ LET return(bytes) ==
               IF bytes.ok
               THEN pc' = "content" /\ r' = bytes.rest
                                    /\ tail' = Append(tail, bytes.val)
               ELSE pc' = "enumerated" /\ r' = bytes.rest /\ UNCHANGED tail
       IN  return(read_exact_vec(r, database_header.page_size))
    /\ UNCHANGED sql_result
    /\ UNCHANGED <<input, overflow_checks, alloc_fails, eof_consumes,
                   database_header, root_page, page_cells, pairs>>
    /\ UNCHANGED varintvars
    /\ UNCHANGED <<recordvars, pagevars>>

SpecRead == InitDatabase /\ [][ReadWith \/ ReadTable]_vars

\* C30: once the header is accepted the enumeration of the pages comes to
\* its end: every step consumes the page_size bytes after the ones of the
\* step before, at least one byte, so that no page is read twice and the
\* pages read are at most Len(input) \div page_size
C30_EnumerationEnds ==
    pc \in {"content", "enumerated"} =>
        /\ Len(tail) * database_header.page_size <= Len(input)
        /\ \A k \in 1..Len(tail) :
               /\ tail[k] # <<>>
               /\ tail[k] = SubSeq(input,
                                   DATABASE_HEADER_SIZE
                                       + (k - 1) * database_header.page_size + 1,
                                   DATABASE_HEADER_SIZE
                                       + k * database_header.page_size)

====
